---- MODULE Spec2Model ----
(***************************************************************************)
(* A model of the httpmock request-expectation engine (package httpmock): *)
(* the Mock registry of mock.go and the Request comparators of            *)
(* request.go.  Diagnostic texts (the first result of every diff*         *)
(* function) are not modelled; difference counts, the repeatability       *)
(* state, the received-request log and the registry mutex are.            *)
(***************************************************************************)
EXTENDS Integers, Sequences, FiniteSets, TLC

(***************************************************************************)
(* Bounds of the model.                                                    *)
(***************************************************************************)
\* most expectations registered with On
MaxExpected == 2
\* most successful Requested calls (length of the received-request log)
MaxRequests == 2
\* largest argument given to Times
MaxTimes == 2
\* goroutines calling Requested concurrently
NumProcs == 3
\* most matchers added to one expectation with Matches
MaxMatchers == 1
\* most calls made by a caller that calls the operations in any order
MaxCalls == 5
\* the arguments given to Times go down to -MaxSpent
MaxSpent == 2
\* the longest list of values of one query key
MaxValues == 2
\* the most matchers of an expectation whose diff is called directly
MaxDiffMatchers == 2
\* the most values one response header key is given
MaxHeaderValues == 3

(***************************************************************************)
(* Program constants.                                                      *)
(***************************************************************************)
AnyMethod == "httpmock.AnyMethod"
AnyBody == "httpmock.AnyBody"
StatusOK == 200

\* a nil *Request: pointers to expectations are positions 1..Len in
\* ExpectedRequests
NilRequest == 0

(***************************************************************************)
(* url.URL values.  Query stands for the parsed RawQuery (url.Values): a  *)
(* function from the declared keys to the sequence of values of each key. *)
(***************************************************************************)
NoQuery == [k \in {} |-> <<>>]

MkURL(scheme, host, path, query, fragment) ==
    [Scheme |-> scheme, Opaque |-> "", User |-> "", Host |-> host,
     Path |-> path, RawPath |-> "", OmitHost |-> FALSE, ForceQuery |-> FALSE,
     Query |-> query, Fragment |-> fragment, RawFragment |-> ""]

\* url.URL.String() renders the empty string exactly when nothing is set
URLStringIsEmpty(u) ==
    /\ u.Scheme = "" /\ u.Opaque = "" /\ u.User = "" /\ u.Host = ""
    /\ u.Path = "" /\ ~u.ForceQuery /\ DOMAIN u.Query = {} /\ u.Fragment = ""

\* the exported url.URL fields cmp.Equal compares in diffURL (RawQuery is
\* ignored by cmpoptIgnoreURLRawQuery)
URLStructEqual(a, b) ==
    /\ a.Scheme = b.Scheme /\ a.Opaque = b.Opaque /\ a.User = b.User
    /\ a.Host = b.Host /\ a.Path = b.Path /\ a.RawPath = b.RawPath
    /\ a.OmitHost = b.OmitHost /\ a.ForceQuery = b.ForceQuery
    /\ a.Fragment = b.Fragment /\ a.RawFragment = b.RawFragment

(***************************************************************************)
(* Responses.  A nil *Response is the record with nil = TRUE.  The header  *)
(* field of a Response is an http.Header, a Go map, which is a reference:  *)
(* headerMap names the map the field refers to and header is what that map *)
(* holds.  Two responses with the same parent and the same headerMap hold  *)
(* the same map.                                                           *)
(***************************************************************************)
\* the keys given to Response.Header
HeaderKeys == {"foo", "baz"}

\* http.Header{}: no key has a value
NoHeader == [k \in HeaderKeys |-> <<>>]

NilResponse ==
    [nil |-> TRUE, parent |-> 0, statusCode |-> 0, header |-> NoHeader,
     headerMap |-> 0, body |-> ""]

\* newResponse: a response of expectation parent with a header map of its
\* own; whoever allocates it names the map
newResponse(parent, statusCode, body) ==
    [nil |-> FALSE, parent |-> parent, statusCode |-> statusCode,
     header |-> NoHeader, headerMap |-> 0, body |-> body]

\* r.header[key] = append(append(r.header[key], value), values...)
headerAppend(old, values) == old \o values

\* a write of values v under key into the header map that response r
\* holds, as response resp sees it
headerWritten(resp, r, key, v) ==
    IF ~resp.nil /\ resp.parent = r.parent /\ resp.headerMap = r.headerMap
    THEN [resp EXCEPT !.header[key] = v]
    ELSE resp

(***************************************************************************)
(* Expectations and received requests.                                     *)
(***************************************************************************)
newRequest(method, URL, body) ==
    [method |-> method, url |-> URL, body |-> body, matchers |-> <<>>,
     response |-> NilResponse, repeatability |-> 0, totalRequests |-> 0]

\* a received *http.Request as it arrives.  Body is what its Body stream
\* holds, Consumed says that the stream has been read to its end, BodyErr
\* that reading it fails; Sent keeps the bytes originally sent
HTTPRequest(method, URL, body, bodyErr) ==
    [Method |-> method, URL |-> URL, Body |-> body, BodyErr |-> bodyErr,
     Consumed |-> FALSE, Sent |-> body]

(***************************************************************************)
(* Diff primitives (request.go).  Each returns the number of differences. *)
(***************************************************************************)
SafeReadBodyFails(received) == received.BodyErr

\* io.ReadAll(received.Body): what is left of the stream
readAll(received) == IF received.Consumed THEN "" ELSE received.Body

\* variant: the stream is left at its end
afterSafeReadBodyNoReset(received) ==
    IF SafeReadBodyFails(received) THEN received
    ELSE [received EXCEPT !.Consumed = TRUE]

\* the request as SafeReadBody leaves it: Body is a new buffer over the
\* bytes read, unread
afterSafeReadBody(received) ==
    IF SafeReadBodyFails(received) THEN received
    ELSE [received EXCEPT !.Body = readAll(received), !.Consumed = FALSE]

\* variant: an expectation without a method matches a request without one
diffMethodEmptyEqual(r, received) ==
    IF \/ (r.method = AnyMethod /\ received.Method # "")
       \/ r.method = received.Method
    THEN 0 ELSE 1

\* Request.diffMethod
diffMethod(r, received) ==
    IF \/ (r.method = AnyMethod /\ received.Method # "")
       \/ (r.method = received.Method /\ r.method # "")
    THEN 0 ELSE 1

\* the place of a query value in Go's order on strings ("1" < "2" < any
\* other value the model uses)
Rank(v) == CASE v = "1" -> 1 [] v = "2" -> 2 [] OTHER -> 3

\* the less function given to cmpopts.SortSlices: a < b
stringLess(a, b) == Rank(a) < Rank(b)

\* cmpoptSortSlices: the values of one key are sorted before comparison
RECURSIVE InsertSorted(_, _)
InsertSorted(v, s) ==
    IF s = <<>> THEN <<v>>
    ELSE IF ~stringLess(Head(s), v) THEN <<v>> \o s
    ELSE <<Head(s)>> \o InsertSorted(v, Tail(s))

RECURSIVE SortSlice(_)
SortSlice(s) ==
    IF s = <<>> THEN <<>> ELSE InsertSorted(Head(s), SortSlice(Tail(s)))

\* variant: the values of a key are compared in the order they came
ValuesEqualOrdered(x, y) == x = y

\* cmp.Equal(rQuery, oFilteredQuery, cmpoptSortMaps, cmpoptSortSlices)
ValuesEqual(x, y) ==
    /\ DOMAIN x = DOMAIN y
    /\ \A k \in DOMAIN x : SortSlice(x[k]) = SortSlice(y[k])

\* variant: the received query is compared whole, undeclared keys included
diffQueryUnfiltered(r, received) ==
    IF DOMAIN r.url.Query = {} THEN 0
    ELSE IF ValuesEqual(r.url.Query, received.URL.Query) THEN 0 ELSE 1

\* Request.diffQuery
diffQuery(r, received) ==
    LET rQuery == r.url.Query
        oQuery == received.URL.Query
        oFilteredQuery ==
            [k \in (DOMAIN rQuery) \cap (DOMAIN oQuery) |-> oQuery[k]]
    IN  IF DOMAIN rQuery = {} THEN 0
        ELSE IF ValuesEqual(rQuery, oFilteredQuery) THEN 0 ELSE 1

\* cmp.Equal of two url.URL values panics when it reaches an unexported
\* field that no option covers: the fields of url.Userinfo, which it reaches
\* when both User pointers are set (a nil pointer is compared without being
\* followed)
cmpEqualPanics(a, b) == a.User # "" /\ b.User # ""

\* diffURL panics instead of returning: it gets to cmp.Equal whenever both
\* rendered URLs are non-empty
diffURLPanics(r, received) ==
    /\ ~URLStringIsEmpty(r.url)
    /\ ~URLStringIsEmpty(received.URL)
    /\ cmpEqualPanics(r.url, received.URL)

\* variant: two empty URLs go on to the comparison of the fields
diffURLBothEmptyPass(r, received) ==
    IF URLStringIsEmpty(r.url) # URLStringIsEmpty(received.URL) THEN 1
    ELSE IF URLStructEqual(r.url, received.URL) /\ diffQuery(r, received) = 0
         THEN 0 ELSE 1

\* Request.diffURL, when it returns
diffURL(r, received) ==
    IF URLStringIsEmpty(r.url) \/ URLStringIsEmpty(received.URL) THEN 1
    ELSE IF URLStructEqual(r.url, received.URL) /\ diffQuery(r, received) = 0
         THEN 0 ELSE 1

\* variant: the wildcard is looked at before the received body is read
diffBodyWildcardFirst(r, received) ==
    IF r.body = AnyBody THEN 0
    ELSE IF SafeReadBodyFails(received) THEN 1
    ELSE IF r.body = received.Body THEN 0 ELSE 1

\* Request.diffBody
diffBody(r, received) ==
    IF SafeReadBodyFails(received) THEN 1
    ELSE IF r.body = AnyBody THEN 0
    ELSE IF r.body = "" /\ readAll(received) = "" THEN 0
    ELSE IF \/ (r.body = "" /\ readAll(received) # "")
            \/ (r.body # "" /\ readAll(received) = "")
            \/ r.body # readAll(received)
         THEN 1 ELSE 0

\* a RequestMatcher is a user function of the received request; the model
\* knows the matchers by name.  hasBody reads the body, through SafeReadBody
\* as the README asks of code that reads a request body
RunMatcher(fn, received) ==
    CASE fn = "hasBody" -> IF readAll(received) # "" THEN 0 ELSE 1
      [] fn = "sometimesPass" -> IF received.Method = "GET" THEN 0 ELSE 1
      [] fn = "twoDifferences" -> 2
      [] OTHER -> 0

\* the request as a matcher leaves it
afterMatcher(fn, received) ==
    IF fn = "hasBody" THEN afterSafeReadBody(received) ELSE received

\* variant: the count of the last matcher replaces the counts before it
SumMatchersLast(matchers, received) ==
    IF matchers = <<>> THEN 0
    ELSE RunMatcher(matchers[Len(matchers)], received)

\* the counts of the matchers added up, each matcher being given the
\* request as the one before it left it
RECURSIVE SumMatchers(_, _)
SumMatchers(matchers, received) ==
    IF matchers = <<>> THEN 0
    ELSE RunMatcher(Head(matchers), received)
         + SumMatchers(Tail(matchers),
                       afterMatcher(Head(matchers), received))

\* the loop over r.matchers in Request.diff: the matchers it calls from
\* index i on, in the order it calls them
RECURSIVE matchersCalled(_, _, _)
matchersCalled(r, received, i) ==
    IF i > Len(r.matchers) THEN <<>>
    ELSE <<r.matchers[i]>> \o matchersCalled(r, received, i + 1)

\* the request as the matchers from index i on leave it
RECURSIVE afterMatchers(_, _, _)
afterMatchers(matchers, received, i) ==
    IF i > Len(matchers) THEN received
    ELSE afterMatchers(matchers, afterMatcher(matchers[i], received), i + 1)

\* the request as Request.diffBody leaves it
afterDiffBody(r, received) == afterSafeReadBody(received)

\* Request.diff panics instead of returning (diffMethod and diffBody never
\* panic)
diffPanics(r, received) == diffURLPanics(r, received)

\* variant: the matchers are left out once method, URL or body differ
diffSkipMatchersOnFailure(r, received) ==
    LET base == diffMethod(r, received) + diffURL(r, received)
                + diffBody(r, received)
    IN  IF base > 0 THEN base
        ELSE SumMatchers(r.matchers, afterDiffBody(r, received))

\* Request.diff, when it returns
diff(r, received) ==
    diffMethod(r, received) + diffURL(r, received) + diffBody(r, received)
    + SumMatchers(r.matchers, afterDiffBody(r, received))

\* the request as Request.diff leaves it: diffBody, then the matchers
afterDiff(r, received) ==
    IF diffPanics(r, received) THEN received
    ELSE afterMatchers(r.matchers, afterDiffBody(r, received), 1)

(***************************************************************************)
(* Matching engine (mock.go).                                              *)
(***************************************************************************)
\* the loop of findExpectedRequest from position i on, `expected` being the
\* last zero-difference expectation seen so far
RECURSIVE findExpectedRequestFrom(_, _, _, _)
findExpectedRequestFrom(ers, actual, i, expected) ==
    IF i > Len(ers) THEN [found |-> -1, expected |-> expected]
    ELSE IF diff(ers[i], actual) # 0
         THEN findExpectedRequestFrom(ers, actual, i + 1, expected)
    ELSE IF ers[i].repeatability > -1
         THEN [found |-> i - 1, expected |-> i]
    ELSE findExpectedRequestFrom(ers, actual, i + 1, i)

\* variant: keeps the first exhausted zero-difference expectation it meets
RECURSIVE findExpectedRequestKeepFirstFrom(_, _, _, _)
findExpectedRequestKeepFirstFrom(ers, actual, i, expected) ==
    IF i > Len(ers) THEN [found |-> -1, expected |-> expected]
    ELSE IF diff(ers[i], actual) # 0
         THEN findExpectedRequestKeepFirstFrom(ers, actual, i + 1, expected)
    ELSE IF ers[i].repeatability > -1
         THEN [found |-> i - 1, expected |-> i]
    ELSE findExpectedRequestKeepFirstFrom(ers, actual, i + 1,
             IF expected = NilRequest THEN i ELSE expected)

findExpectedRequestKeepFirst(ers, actual) ==
    findExpectedRequestKeepFirstFrom(ers, actual, 1, NilRequest)

\* variant: scans the expectations from the last registered to the first
RECURSIVE findExpectedRequestBackwardFrom(_, _, _, _)
findExpectedRequestBackwardFrom(ers, actual, i, expected) ==
    IF i < 1 THEN [found |-> -1, expected |-> expected]
    ELSE IF diff(ers[i], actual) # 0
         THEN findExpectedRequestBackwardFrom(ers, actual, i - 1, expected)
    ELSE IF ers[i].repeatability > -1
         THEN [found |-> i - 1, expected |-> i]
    ELSE findExpectedRequestBackwardFrom(ers, actual, i - 1,
             IF expected = NilRequest THEN i ELSE expected)

findExpectedRequestBackward(ers, actual) ==
    findExpectedRequestBackwardFrom(ers, actual, Len(ers), NilRequest)

\* variant: the repeatability of a zero-difference expectation is not
\* looked at
RECURSIVE findExpectedRequestAnyUsesFrom(_, _, _)
findExpectedRequestAnyUsesFrom(ers, actual, i) ==
    IF i > Len(ers) THEN [found |-> -1, expected |-> NilRequest]
    ELSE IF diff(ers[i], actual) # 0
         THEN findExpectedRequestAnyUsesFrom(ers, actual, i + 1)
    ELSE [found |-> i - 1, expected |-> i]

findExpectedRequestAnyUses(ers, actual) ==
    findExpectedRequestAnyUsesFrom(ers, actual, 1)

\* variant: only the repeatability -1 marks an expectation as spent
RECURSIVE findExpectedRequestOnlyMinusOneFrom(_, _, _, _)
findExpectedRequestOnlyMinusOneFrom(ers, actual, i, expected) ==
    IF i > Len(ers) THEN [found |-> -1, expected |-> expected]
    ELSE IF diff(ers[i], actual) # 0
         THEN findExpectedRequestOnlyMinusOneFrom(ers, actual, i + 1, expected)
    ELSE IF ers[i].repeatability # -1
         THEN [found |-> i - 1, expected |-> i]
    ELSE findExpectedRequestOnlyMinusOneFrom(ers, actual, i + 1, i)

findExpectedRequestOnlyMinusOne(ers, actual) ==
    findExpectedRequestOnlyMinusOneFrom(ers, actual, 1, NilRequest)

\* variant: an expectation is usable only while it owes uses
RECURSIVE findExpectedRequestOwingFrom(_, _, _, _)
findExpectedRequestOwingFrom(ers, actual, i, expected) ==
    IF i > Len(ers) THEN [found |-> -1, expected |-> expected]
    ELSE IF diff(ers[i], actual) # 0
         THEN findExpectedRequestOwingFrom(ers, actual, i + 1, expected)
    ELSE IF ers[i].repeatability > 0
         THEN [found |-> i - 1, expected |-> i]
    ELSE findExpectedRequestOwingFrom(ers, actual, i + 1, i)

findExpectedRequestOwing(ers, actual) ==
    findExpectedRequestOwingFrom(ers, actual, 1, NilRequest)

\* found is the Go (0-based) index or -1; expected is the pointer
findExpectedRequest(ers, actual) ==
    findExpectedRequestFrom(ers, actual, 1, NilRequest)

\* the loop of findExpectedRequest panics: it gets to an expectation whose
\* diff panics before it has returned a usable exact match
findExpectedRequestPanics(ers, actual) ==
    /\ actual.URL.User # ""
    /\ \E i \in 1 .. Len(ers) :
           /\ diffPanics(ers[i], actual)
           /\ \A j \in 1 .. (i - 1) :
                  ~(diff(ers[j], actual) = 0 /\ ers[j].repeatability > -1)

\* variant: equal difference counts are never a better match
isBetterMatchThanNoTieBreak(ers, mc, other) ==
    IF mc.request = NilRequest THEN FALSE
    ELSE IF other.request = NilRequest THEN TRUE
    ELSE mc.diffCount < other.diffCount

\* variant: on equal difference counts a candidate with uses left is better
\* whatever the other candidate has left
isBetterMatchThanUsesLeft(ers, mc, other) ==
    IF mc.request = NilRequest THEN FALSE
    ELSE IF other.request = NilRequest THEN TRUE
    ELSE IF mc.diffCount > other.diffCount THEN FALSE
    ELSE IF mc.diffCount < other.diffCount THEN TRUE
    ELSE ers[mc.request].repeatability > 0

\* matchCandidate{request, diffCount}; repeatability is read through the
\* request pointer
isBetterMatchThan(ers, mc, other) ==
    IF mc.request = NilRequest THEN FALSE
    ELSE IF other.request = NilRequest THEN TRUE
    ELSE IF mc.diffCount > other.diffCount THEN FALSE
    ELSE IF mc.diffCount < other.diffCount THEN TRUE
    ELSE /\ ers[mc.request].repeatability > 0
         /\ ers[other.request].repeatability <= 0

RECURSIVE findClosestRequestFrom(_, _, _, _)
findClosestRequestFrom(ers, received, i, bestMatch) ==
    IF i > Len(ers) THEN bestMatch
    ELSE LET tempCandidate ==
                 [request |-> i, diffCount |-> diff(ers[i], received)]
         IN  findClosestRequestFrom(ers, received, i + 1,
                 IF isBetterMatchThan(ers, tempCandidate, bestMatch)
                 THEN tempCandidate ELSE bestMatch)

\* returns the pointer to the closest expectation, NilRequest if none
findClosestRequest(ers, received) ==
    findClosestRequestFrom(ers, received, 1,
        [request |-> NilRequest, diffCount |-> 0]).request

\* variant: the last use leaves repeatability at 0
ConsumeToZero(e) ==
    [e EXCEPT !.repeatability =
                  IF e.repeatability >= 1 THEN e.repeatability - 1
                  ELSE e.repeatability,
              !.totalRequests = e.totalRequests + 1]

\* variant: every expectation counts down, the unlimited ones too
ConsumeUnlimited(e) ==
    [e EXCEPT !.repeatability =
                  IF e.repeatability <= 1 THEN -1 ELSE e.repeatability - 1,
              !.totalRequests = e.totalRequests + 1]

\* variant: a use of an unlimited expectation leaves it owing one more
ConsumeOwing(e) ==
    [e EXCEPT !.repeatability =
                  IF e.repeatability = 1 THEN -1
                  ELSE IF e.repeatability > 1 THEN e.repeatability - 1
                  ELSE IF e.repeatability = 0 THEN 1
                  ELSE e.repeatability,
              !.totalRequests = e.totalRequests + 1]

\* the repeatability transition of Requested for the selected expectation
Consume(e) ==
    [e EXCEPT !.repeatability =
                  IF e.repeatability = 1 THEN -1
                  ELSE IF e.repeatability > 1 THEN e.repeatability - 1
                  ELSE e.repeatability,
              !.totalRequests = e.totalRequests + 1]

\* the entry Requested appends to the log: a clean request carrying a copy
\* of the response
LogEntry(received, response) ==
    [newRequest(received.Method, received.URL, readAll(received))
        EXCEPT !.response = response]

\* variant: the arguments are the expectation side of diff and the logged
\* request is the received side
checkWasRequestedArgsExpected(reqs, method, URL, body) ==
    LET tempExpected == newRequest(method, URL, body)
    IN  \E k \in 1..Len(reqs) :
            diff(tempExpected,
                 HTTPRequest(reqs[k].method, reqs[k].url, reqs[k].body,
                             FALSE)) = 0

\* checkWasRequested: the logged request is the expectation side of diff,
\* the arguments are the received side
checkWasRequested(reqs, method, URL, body) ==
    LET tempReceived == HTTPRequest(method, URL, body, FALSE)
    IN  \E k \in 1..Len(reqs) : diff(reqs[k], tempReceived) = 0

\* variant: an expectation that still owes uses is not reported
checkExpectationNoCountdown(reqs, expected) ==
    ~ (/\ ~checkWasRequested(reqs, expected.method, expected.url,
                             expected.body)
       /\ expected.totalRequests = 0)

\* variant: totalRequests is not consulted
checkExpectationNoTotal(reqs, expected) ==
    ~ \/ ~checkWasRequested(reqs, expected.method, expected.url,
                            expected.body)
      \/ expected.repeatability > 0

\* TRUE when the expectation is satisfied
checkExpectation(reqs, expected) ==
    ~ \/ (/\ ~checkWasRequested(reqs, expected.method, expected.url,
                                expected.body)
          /\ expected.totalRequests = 0)
      \/ expected.repeatability > 0

\* variant: the loop stops after the first expectation it looks at
failedExpectationsFirstOnly(ers, reqs, i) ==
    IF i > Len(ers) THEN 0
    ELSE IF checkExpectation(reqs, ers[i]) THEN 0 ELSE 1

\* the loop of AssertExpectations counting the failed expectations
RECURSIVE failedExpectations(_, _, _)
failedExpectations(ers, reqs, i) ==
    IF i > Len(ers) THEN 0
    ELSE (IF checkExpectation(reqs, ers[i]) THEN 0 ELSE 1)
         + failedExpectations(ers, reqs, i + 1)

AssertExpectationsResult(ers, reqs) == failedExpectations(ers, reqs, 1) = 0

\* url.URL.String(): what the rendered text is made of.  An opaque URL
\* renders neither authority nor path; the query is rendered when ForceQuery
\* or RawQuery is set, the fragment when Fragment is set
URLString(u) ==
    [scheme |-> u.Scheme,
     opaque |-> u.Opaque,
     user |-> IF u.Opaque # "" THEN "" ELSE u.User,
     host |-> IF u.Opaque # "" THEN "" ELSE u.Host,
     path |-> IF u.Opaque # "" THEN ""
              ELSE IF u.RawPath # "" THEN u.RawPath ELSE u.Path,
     mark |-> u.ForceQuery \/ DOMAIN u.Query # {},
     query |-> u.Query,
     fragment |-> IF u.Fragment = "" THEN ""
                  ELSE IF u.RawFragment # "" THEN u.RawFragment
                  ELSE u.Fragment]

\* variant: the user information of the argument is kept
countedPathKeepUser(URL) ==
    URLString([URL EXCEPT !.Query = NoQuery, !.Fragment = "",
                          !.RawFragment = ""])

\* the argument of AssertNumberOfRequests as it is compared: User, RawQuery,
\* Fragment and RawFragment are cleared
countedPath(URL) ==
    URLString([URL EXCEPT !.User = "", !.Query = NoQuery, !.Fragment = "",
                          !.RawFragment = ""])

\* a logged URL as it is compared: User, RawQuery and Fragment are cleared
countedActual(URL) ==
    URLString([URL EXCEPT !.User = "", !.Query = NoQuery, !.Fragment = ""])

\* the loop of AssertNumberOfRequests from the log entry k on
RECURSIVE actualRequests(_, _, _, _)
actualRequests(reqs, method, path, k) ==
    IF k > Len(reqs) THEN 0
    ELSE (IF reqs[k].method # method THEN 0
          ELSE IF countedActual(reqs[k].url) # path THEN 0
          ELSE 1)
         + actualRequests(reqs, method, path, k + 1)

AssertNumberOfRequestsResult(reqs, method, URL, expectedRequests) ==
    expectedRequests = actualRequests(reqs, method, countedPath(URL), 1)

AssertRequestedResult(reqs, method, URL, body) ==
    checkWasRequested(reqs, method, URL, body)

\* variant: true only while nothing at all has been logged
AssertNotRequestedResultEmptyLog(reqs, method, URL, body) == reqs = <<>>

AssertNotRequestedResult(reqs, method, URL, body) ==
    ~checkWasRequested(reqs, method, URL, body)

(***************************************************************************)
(* Inputs of the operations.                                               *)
(***************************************************************************)
URLFoo == MkURL("", "", "/foo", NoQuery, "")
URLBar == MkURL("", "", "/bar", NoQuery, "")

\* the (method, URL, body) triples given to On
ExpectationInputs ==
    { <<"GET", URLFoo, "">>,
      <<AnyMethod, URLFoo, AnyBody>> }

\* the requests given to Requested
ReceivedInputs ==
    { HTTPRequest("GET", URLFoo, "", FALSE),
      HTTPRequest("PUT", URLFoo, "x", FALSE),
      HTTPRequest("GET", URLBar, "", FALSE),
      HTTPRequest("GET", URLFoo, "", TRUE) }

\* the arguments given to Times (Once is Times(1), Twice is Times(2))
TimesInputs == (-1 .. MaxTimes)

\* the status codes given to Respond (RespondOK, RespondNoContent)
StatusInputs == {StatusOK}

Procs == 1 .. NumProcs

(***************************************************************************)
(* State.                                                                  *)
(*   ExpectedRequests, Requests : the fields of Mock                       *)
(*   mutex    : 0 when Mock.mutex is free, else the goroutine holding it   *)
(*   pc, local: position and local variables of each goroutine that is     *)
(*              inside Requested                                           *)
(*   ret      : what the last completed call returned or how it failed     *)
(*   countdown: history, for each expectation the N of its last Times(N)   *)
(*              call when N > 0 and the call came before the first         *)
(*              consumption, else 0                                        *)
(*   calls    : history, the number of calls made so far by a caller that  *)
(*              counts its calls                                           *)
(*   test     : m.test # nil, a failure sink has been set with Test(t)     *)
(*   ignorePanic : the field of the Server around the mock: the handler    *)
(*              lets panics through                                        *)
(***************************************************************************)
VARIABLES ExpectedRequests, Requests, mutex, pc, local, ret, countdown, calls,
          test, ignorePanic

vars ==
    <<ExpectedRequests, Requests, mutex, pc, local, ret, countdown, calls,
      test, ignorePanic>>

NoReceived == HTTPRequest("", MkURL("", "", "", NoQuery, ""), "", FALSE)

Ret(op, outcome, received, expected, response, total) ==
    [op |-> op, outcome |-> outcome, received |-> received,
     expected |-> expected, response |-> response, total |-> total,
     fail |-> <<>>]

\* the calls that return nothing the model looks at
NoRet == Ret("", "", NoReceived, NilRequest, NilResponse, 0)

NoLocal == [received |-> NoReceived, expected |-> NilRequest,
            failure |-> "", total |-> 0, response |-> NilResponse]

Init ==
    /\ ExpectedRequests = <<>>
    /\ Requests = <<>>
    /\ mutex = 0
    /\ pc = [p \in Procs |-> "idle"]
    /\ local = [p \in Procs |-> NoLocal]
    /\ ret = NoRet
    /\ countdown = <<>>
    /\ calls = 0
    /\ test = FALSE
    /\ ignorePanic = FALSE

(***************************************************************************)
(* The operations, each as one atomic call (the whole call runs under the *)
(* registry mutex).                                                        *)
(***************************************************************************)
\* the goroutine that makes the atomic calls
Caller == NumProcs + 1

\* m.mutex.Lock() returns: nobody holds the mutex
Unlocked == mutex = 0

\* url.Parse(URL) returns an error: the text has a control character in it
urlParseFails(URL) == URL.Path \in {"\r"}

\* the message of each fatal failure, as formatted
failureMessage(outcome) ==
    CASE outcome = "badURL" -> "failed to parse url."
      [] outcome = "readBody" ->
           "assert: httpmock: Failed to read requested body."
      [] outcome = "exhausted" ->
           "assert: httpmock: The request has been called over N times."
      [] outcome = "unexpected" -> "httpmock: Unexpected Request"
      [] outcome = "completelyUnexpected" ->
           "assert: httpmock: I don't know what to return."
      [] OTHER -> ""

\* the outcomes of On and Requested that end in Mock.fail
FatalOutcomes ==
    {"badURL", "readBody", "exhausted", "unexpected", "completelyUnexpected"}

\* variant: reports the error and does not abort
failErrorfOnly(t, message) ==
    IF ~t THEN << [call |-> "panic", message |-> message] >>
    ELSE << [call |-> "Errorf", message |-> message] >>

\* Mock.fail: what it does to the sink, in order.  Without a sink it
\* panics with the message; with one it calls Errorf and then FailNow,
\* which does not return.  Either way the call that failed is aborted.
fail(t, message) ==
    IF ~t THEN << [call |-> "panic", message |-> message] >>
    ELSE << [call |-> "Errorf", message |-> message],
            [call |-> "FailNow", message |-> ""] >>

\* Mock.Test with a sink that is not nil
Test ==
    /\ Unlocked
    /\ test' = TRUE
    /\ ret' = NoRet
    /\ UNCHANGED <<ExpectedRequests, Requests, mutex, pc, local, countdown,
                   ignorePanic>>

\* variant: registers the expectation before it looks at the parse error
OnAppendFirst(method, URL, body) ==
    /\ Unlocked
    /\ Len(ExpectedRequests) < MaxExpected
    /\ ExpectedRequests' =
           Append(ExpectedRequests, newRequest(method, URL, body))
    /\ countdown' = Append(countdown, 0)
    /\ ret' = IF urlParseFails(URL)
              THEN [Ret("On", "badURL", NoReceived, NilRequest,
                        NilResponse, 0)
                       EXCEPT !.fail = fail(test, failureMessage("badURL"))]
              ELSE Ret("On", "ok", NoReceived, Len(ExpectedRequests) + 1,
                       NilResponse, 0)
    /\ UNCHANGED <<Requests, mutex, pc, local, test, ignorePanic>>

\* Mock.On.  It returns expected, the pointer to the expectation it has
\* registered; with a URL that does not parse it ends in Mock.fail before
\* anything is registered.
On(method, URL, body) ==
    /\ Unlocked
    /\ IF urlParseFails(URL)
       THEN /\ ret' = [Ret("On", "badURL", NoReceived, NilRequest,
                           NilResponse, 0)
                          EXCEPT !.fail =
                                     fail(test, failureMessage("badURL"))]
            /\ UNCHANGED <<ExpectedRequests, countdown>>
       ELSE /\ Len(ExpectedRequests) < MaxExpected
            /\ ExpectedRequests' =
                   Append(ExpectedRequests, newRequest(method, URL, body))
            /\ countdown' = Append(countdown, 0)
            /\ ret' = Ret("On", "ok", NoReceived, Len(ExpectedRequests) + 1,
                          NilResponse, 0)
    /\ UNCHANGED <<Requests, mutex, pc, local, test, ignorePanic>>

\* the name of a header map that no logged response of expectation i
\* holds: the map newResponse allocates is a new one
freshHeaderMap(reqs, i) ==
    LET held == { reqs[k].response.headerMap :
                      k \in { j \in 1 .. Len(reqs) :
                                 /\ ~reqs[j].response.nil
                                 /\ reqs[j].response.parent = i } }
    IN  CHOOSE g \in 0 .. Len(reqs) :
            /\ g \notin held
            /\ \A h \in 0 .. (g - 1) : h \in held

\* Request.Respond on the expectation at pointer i
Respond(i, statusCode, body) ==
    /\ Unlocked
    /\ i \in 1 .. Len(ExpectedRequests)
    /\ ExpectedRequests' =
           [ExpectedRequests EXCEPT ![i].response =
                [newResponse(i, statusCode, body)
                     EXCEPT !.headerMap = freshHeaderMap(Requests, i)]]
    /\ ret' = NoRet
    /\ UNCHANGED <<Requests, mutex, pc, local, countdown, test, ignorePanic>>

\* Response.Header on the response of the expectation at pointer i: the
\* write goes to the map, so every response that holds the map sees it
Header(i, key, values) ==
    /\ Unlocked
    /\ i \in 1 .. Len(ExpectedRequests)
    /\ ~ExpectedRequests[i].response.nil
    /\ LET r == ExpectedRequests[i].response
           v == headerAppend(r.header[key], values)
       IN  /\ Len(v) <= MaxHeaderValues
           /\ ExpectedRequests' =
                  [k \in 1 .. Len(ExpectedRequests) |->
                      [ExpectedRequests[k] EXCEPT !.response =
                           headerWritten(@, r, key, v)]]
           /\ Requests' =
                  [k \in 1 .. Len(Requests) |->
                      [Requests[k] EXCEPT !.response =
                           headerWritten(@, r, key, v)]]
           /\ ret' = Ret("Header", "", NoReceived, i,
                         headerWritten(r, r, key, v), 0)
    /\ UNCHANGED <<mutex, pc, local, countdown, test, ignorePanic>>

\* Request.Times on the expectation at pointer i
Times(r, i) ==
    /\ Unlocked
    /\ r \in 1 .. Len(ExpectedRequests)
    /\ ExpectedRequests' = [ExpectedRequests EXCEPT ![r].repeatability = i]
    /\ countdown' =
           [countdown EXCEPT ![r] =
                IF i > 0 /\ ExpectedRequests[r].totalRequests = 0
                THEN i ELSE 0]
    /\ ret' = NoRet
    /\ UNCHANGED <<Requests, mutex, pc, local, test, ignorePanic>>

\* variant: looks for the closest expectation before it looks at the
\* exhausted one
RequestedOutcomeClosestFirst(ers, received) ==
    LET fe == findExpectedRequest(ers, received)
    IN  IF SafeReadBodyFails(received) THEN "readBody"
        ELSE IF fe.found < 0
             THEN IF findClosestRequest(ers, received) # NilRequest
                  THEN "unexpected"
                  ELSE IF fe.expected # NilRequest THEN "exhausted"
                  ELSE "completelyUnexpected"
        ELSE "ok"

\* how Requested(received) ends with the expectations ers: "ok", or the
\* failure it reports through Mock.fail, or "panic" when a comparison
\* panics during the scan
RequestedOutcome(ers, received) ==
    LET fe == findExpectedRequest(ers, received)
    IN  IF SafeReadBodyFails(received) THEN "readBody"
        ELSE IF findExpectedRequestPanics(ers, received) THEN "panic"
        ELSE IF fe.found < 0 /\ fe.expected # NilRequest THEN "exhausted"
        ELSE IF fe.found < 0
             THEN IF findClosestRequest(ers, received) # NilRequest
                  THEN "unexpected" ELSE "completelyUnexpected"
        ELSE "ok"

\* the expectations after Requested(received)
RequestedExpected(ers, received) ==
    LET expected == findExpectedRequest(ers, received).expected
    IN  IF RequestedOutcome(ers, received) = "ok"
        THEN [ers EXCEPT ![expected] = Consume(ers[expected])]
        ELSE ers

\* variant: the request is logged as soon as its body has been read
RequestedLogBeforeMatch(ers, reqs, received) ==
    LET expected == findExpectedRequest(ers, received).expected
    IN  IF RequestedOutcome(ers, received) = "ok"
        THEN Append(reqs, LogEntry(received, ers[expected].response))
        ELSE IF RequestedOutcome(ers, received) # "readBody"
                /\ Len(reqs) < MaxRequests
        THEN Append(reqs, LogEntry(received, NilResponse))
        ELSE reqs

\* the received-request log after Requested(received)
RequestedLog(ers, reqs, received) ==
    LET expected == findExpectedRequest(ers, received).expected
    IN  IF RequestedOutcome(ers, received) = "ok"
        THEN Append(reqs, LogEntry(received, ers[expected].response))
        ELSE reqs

\* the request after the first n expectations have been compared with it,
\* one after the other
RECURSIVE scanned(_, _, _)
scanned(ers, received, n) ==
    IF n = 0 THEN received
    ELSE afterDiff(ers[n], scanned(ers, received, n - 1))

\* how many expectations the scans of Requested compare with the request:
\* findExpectedRequest stops at the expectation it returns, and goes
\* through all of them when it returns none, as findClosestRequest does
examined(ers, received) ==
    LET fe == findExpectedRequest(ers, received)
    IN  IF fe.found < 0 THEN Len(ers) ELSE fe.found + 1

\* the request as Requested leaves it: SafeReadBody, then the scans
afterRequested(ers, received) ==
    IF SafeReadBodyFails(received) THEN received
    ELSE scanned(ers, afterSafeReadBody(received), examined(ers, received))

\* what Requested(received) returns (expected.response), or the failure
\* with what its message reports: the exhausted expectation and its
\* totalRequests, or the closest expectation; received is the caller's
\* request as the call leaves it
RequestedReturn(ers, received) ==
    LET outcome == RequestedOutcome(ers, received)
        expected == findExpectedRequest(ers, received).expected
        after == afterRequested(ers, received)
    IN  CASE outcome = "ok" ->
               Ret("Requested", outcome, after, expected,
                   ers[expected].response,
                   Consume(ers[expected]).totalRequests)
          [] outcome = "exhausted" ->
               Ret("Requested", outcome, after, expected, NilResponse,
                   ers[expected].totalRequests)
          [] outcome = "readBody" \/ outcome = "panic" ->
               Ret("Requested", outcome, received, NilRequest, NilResponse, 0)
          [] OTHER ->
               Ret("Requested", outcome, after,
                   findClosestRequest(ers, received), NilResponse, 0)

\* the calls of Mock.fail on the path Requested(received) takes: one on
\* each failing path, where the call ends
RequestedFail(ers, received, t) ==
    LET outcome == RequestedOutcome(ers, received)
    IN  IF outcome \in FatalOutcomes
        THEN fail(t, failureMessage(outcome))
        ELSE <<>>

\* Mock.Requested.  Every failure ends in Mock.fail, which aborts the call.
\* Requested unlocks the mutex by hand on each of its paths, so a panic
\* during the scan leaves it locked.
Requested(received) ==
    /\ Unlocked
    /\ RequestedOutcome(ExpectedRequests, received) = "ok"
           => Len(Requests) < MaxRequests
    /\ ExpectedRequests' = RequestedExpected(ExpectedRequests, received)
    /\ Requests' = RequestedLog(ExpectedRequests, Requests, received)
    /\ ret' = [RequestedReturn(ExpectedRequests, received)
                  EXCEPT !.fail =
                      RequestedFail(ExpectedRequests, received, test)]
    /\ mutex' = IF RequestedOutcome(ExpectedRequests, received) = "panic"
                THEN Caller ELSE mutex
    /\ UNCHANGED <<pc, local, countdown, test, ignorePanic>>

\* Mock.AssertExpectations
AssertExpectations ==
    /\ Unlocked
    /\ ret' = Ret("AssertExpectations",
                  IF AssertExpectationsResult(ExpectedRequests, Requests)
                  THEN "true" ELSE "false",
                  NoReceived, NilRequest, NilResponse, 0)
    /\ UNCHANGED <<ExpectedRequests, Requests, mutex, pc, local, countdown, test, ignorePanic>>

\* the bool an assertion returns
Bool(b) == IF b THEN "true" ELSE "false"

\* Request.Matches with one matcher on the expectation at pointer r
Matches(r, fn) ==
    /\ Unlocked
    /\ r \in 1 .. Len(ExpectedRequests)
    /\ Len(ExpectedRequests[r].matchers) < MaxMatchers
    /\ ExpectedRequests' =
           [ExpectedRequests EXCEPT ![r].matchers = Append(@, fn)]
    /\ ret' = NoRet
    /\ UNCHANGED <<Requests, mutex, pc, local, countdown, test, ignorePanic>>

\* Mock.AssertNumberOfRequests with a path that parses
AssertNumberOfRequests(method, URL, expectedRequests) ==
    /\ Unlocked
    /\ ret' = Ret("AssertNumberOfRequests",
                  Bool(AssertNumberOfRequestsResult(Requests, method, URL,
                                                    expectedRequests)),
                  HTTPRequest(method, URL, "", FALSE), NilRequest,
                  NilResponse, expectedRequests)
    /\ UNCHANGED <<ExpectedRequests, Requests, mutex, pc, local, countdown, test, ignorePanic>>

\* Mock.AssertRequested with a path that parses
AssertRequested(method, URL, body) ==
    /\ Unlocked
    /\ ret' = Ret("AssertRequested",
                  Bool(AssertRequestedResult(Requests, method, URL, body)),
                  HTTPRequest(method, URL, body, FALSE), NilRequest,
                  NilResponse, 0)
    /\ UNCHANGED <<ExpectedRequests, Requests, mutex, pc, local, countdown, test, ignorePanic>>

\* Mock.AssertNotRequested with a path that parses
AssertNotRequested(method, URL, body) ==
    /\ Unlocked
    /\ ret' = Ret("AssertNotRequested",
                  Bool(AssertNotRequestedResult(Requests, method, URL, body)),
                  HTTPRequest(method, URL, body, FALSE), NilRequest,
                  NilResponse, 0)
    /\ UNCHANGED <<ExpectedRequests, Requests, mutex, pc, local, countdown, test, ignorePanic>>

(***************************************************************************)
(* The caller of Spec is a test in the style of mock_test.go and of the   *)
(* README: it first arranges the mock, each expectation as the chain      *)
(* On(...).Respond(...).Times(...), and then makes requests and asserts.   *)
(***************************************************************************)
\* no request has been made and nothing asserted yet
Arranging == ret = NoRet \/ (ret.op = "On" /\ ret.outcome = "ok")

\* every expectation registered so far has its response attached
ChainedSetup ==
    \A k \in 1 .. Len(ExpectedRequests) : ~ExpectedRequests[k].response.nil

\* the expectation being arranged: the last one registered
Arranged == Len(ExpectedRequests)

\* a caller that does not count its calls
Uncounted == UNCHANGED calls

Next ==
    \/ /\ Arranging
       /\ ChainedSetup
       /\ Uncounted
       /\ \E e \in ExpectationInputs : On(e[1], e[2], e[3])
    \/ /\ Arranging
       /\ Uncounted
       /\ \E c \in StatusInputs : Respond(Arranged, c, "")
    \/ /\ Arranging
       /\ Uncounted
       /\ \E i \in TimesInputs : Times(Arranged, i)
    \/ Uncounted /\ \E received \in ReceivedInputs : Requested(received)
    \/ Uncounted /\ AssertExpectations

Spec == Init /\ [][Next]_vars

(***************************************************************************)
(* The caller of SpecAny calls the public operations in any order, on any *)
(* registered expectation.                                                 *)
(***************************************************************************)
\* the (method, path, body) given to the assertions
AssertInputs == { <<"GET", URLFoo, "">> }

\* the matchers given to Matches
MatcherInputs == {"hasBody"}

\* the arguments given to Times, several negative counts among them
TimesAnyInputs == ((0 - MaxSpent) .. MaxTimes)

Registered == 1 .. Len(ExpectedRequests)

\* one more call of a caller that makes at most MaxCalls calls
Counted == calls < MaxCalls /\ calls' = calls + 1

NextAny ==
    \/ Counted /\ \E e \in ExpectationInputs : On(e[1], e[2], e[3])
    \/ Counted /\ \E r \in Registered, c \in StatusInputs : Respond(r, c, "")
    \/ Counted /\ \E r \in Registered, i \in TimesAnyInputs : Times(r, i)
    \/ Counted /\ \E r \in Registered, fn \in MatcherInputs : Matches(r, fn)
    \/ Counted /\ \E received \in ReceivedInputs : Requested(received)
    \/ Counted /\ AssertExpectations
    \/ Counted /\ \E a \in AssertInputs, n \in 0 .. MaxRequests :
                      AssertNumberOfRequests(a[1], a[2], n)
    \/ Counted /\ \E a \in AssertInputs : AssertRequested(a[1], a[2], a[3])
    \/ Counted /\ \E a \in AssertInputs :
                      AssertNotRequested(a[1], a[2], a[3])

SpecAny == Init /\ [][NextAny]_vars

(***************************************************************************)
(* The caller of SpecLog registers expectations that accept any method    *)
(* and body, makes requests whose URLs carry user information, a query or *)
(* a fragment, and asserts on the received-request log.  A request with   *)
(* user information never gets into the log: against an expectation       *)
(* without user information it differs, against one with user information *)
(* the comparison panics.                                                  *)
(***************************************************************************)
QueryA == [k \in {"a"} |-> <<"1">>]

URLTest == MkURL("https", "test.com", "/foo", NoQuery, "")
URLTestQuery == MkURL("https", "test.com", "/foo", QueryA, "")
URLTestBobTop ==
    [MkURL("https", "test.com", "/foo", NoQuery, "top") EXCEPT !.User = "bob"]
URLTestFull ==
    [MkURL("https", "test.com", "/foo", QueryA, "top") EXCEPT !.User = "bob"]
URLTestBar == MkURL("https", "test.com", "/bar", NoQuery, "")
URLTestTop == MkURL("https", "test.com", "/foo", NoQuery, "top")
URLTestQueryTop == MkURL("https", "test.com", "/foo", QueryA, "top")

LogExpectationInputs ==
    { <<AnyMethod, URLTest, AnyBody>>,
      <<AnyMethod, URLTestTop, AnyBody>>,
      <<AnyMethod, URLTestBobTop, AnyBody>> }

LogReceivedInputs ==
    { HTTPRequest("GET", URLTest, "", FALSE),
      HTTPRequest("PUT", URLTest, "x", FALSE),
      HTTPRequest("GET", URLTestQuery, "", FALSE),
      HTTPRequest("GET", URLTestQueryTop, "", FALSE),
      HTTPRequest("GET", URLTestFull, "", FALSE),
      HTTPRequest("GET", URLTestBar, "", FALSE) }

\* the (method, path) given to AssertNumberOfRequests
CountInputs ==
    { <<"GET", URLTest>>, <<"GET", URLTestFull>>, <<"PUT", URLTestQuery>>,
      <<"GET", URLTestBar>> }

\* the (method, path, body) given to AssertRequested and AssertNotRequested
LogAssertInputs ==
    { <<"GET", URLTest, "">>, <<"GET", URLTestQuery, "">>,
      <<"PUT", URLTest, "x">>, <<AnyMethod, URLTest, AnyBody>> }

NextLog ==
    \/ Uncounted /\ \E e \in LogExpectationInputs : On(e[1], e[2], e[3])
    \/ Uncounted /\ \E received \in LogReceivedInputs : Requested(received)
    \/ Uncounted /\ \E a \in CountInputs, n \in 0 .. MaxRequests :
                        AssertNumberOfRequests(a[1], a[2], n)
    \/ Uncounted /\ \E a \in LogAssertInputs :
                        AssertRequested(a[1], a[2], a[3])
    \/ Uncounted /\ \E a \in LogAssertInputs :
                        AssertNotRequested(a[1], a[2], a[3])

SpecLog == Init /\ [][NextLog]_vars

(***************************************************************************)
(* The comparators called directly, as the tests of request.go call them  *)
(* on a Request value and a received request: one expectation, and the    *)
(* queries of both URLs drawn from the queries over QueryKeys with up to  *)
(* MaxValues values for one key.                                           *)
(***************************************************************************)
QueryKeys == {"a", "b"}
QueryVals == {"1", "2"}

\* the value lists a parsed query can hold for one key (never empty)
ValueLists == UNION {[1 .. n -> QueryVals] : n \in 1 .. MaxValues}

\* url.Values: the keys that occur, each with its values in order; key a
\* holds any value list, key b a single value
Queries ==
    {q \in UNION {[K -> ValueLists] : K \in SUBSET QueryKeys} :
        "b" \in DOMAIN q => Len(q["b"]) = 1}

URLFooQuery(q) == MkURL("", "", "/foo", q, "")

QueryExpectationInputs == {<<"GET", URLFooQuery(q), "">> : q \in Queries}

QueryReceivedInputs ==
    {HTTPRequest("GET", URLFooQuery(q), "", FALSE) : q \in Queries}

\* methods: none, two spellings of one method, another method, the wildcard
DiffMethods == {"", "GET", "get", "PUT", AnyMethod}

MethodExpectationInputs == {<<m, URLFoo, "">> : m \in DiffMethods}

MethodReceivedInputs ==
    {HTTPRequest(m, URLFoo, "", FALSE) : m \in DiffMethods}

\* bodies: none, two different ones; the expectation may hold the wildcard
DiffBodies == {"", "x", "y"}

BodyExpectationInputs ==
    {<<"GET", URLFoo, b>> : b \in DiffBodies \cup {AnyBody}}

\* the request bodies, and a body whose Read returns an error
BodyReceivedInputs ==
    {HTTPRequest("GET", URLFoo, b, FALSE) : b \in DiffBodies}
    \cup {HTTPRequest("GET", URLFoo, "", TRUE)}

\* URLs: the empty one, https://test.com/foo, and URLs that differ from it
\* in one field
URLEmpty == MkURL("", "", "", NoQuery, "")
URLTestHTTP == MkURL("http", "test.com", "/foo", NoQuery, "")
URLTestOther == MkURL("https", "other.com", "/foo", NoQuery, "")
URLTestBob == [URLTest EXCEPT !.User = "bob"]
URLTestAmy == [URLTest EXCEPT !.User = "amy"]
\* https://test.com/foo?
URLTestForceQuery == [URLTest EXCEPT !.ForceQuery = TRUE]
\* https://test.com/f%6Fo
URLTestRawPath == [URLTest EXCEPT !.RawPath = "/f%6Fo"]
\* https:x and https:y
URLOpaqueX == [MkURL("https", "", "", NoQuery, "") EXCEPT !.Opaque = "x"]
URLOpaqueY == [MkURL("https", "", "", NoQuery, "") EXCEPT !.Opaque = "y"]

DiffURLs ==
    {URLEmpty, URLTest, URLTestHTTP, URLTestOther, URLTestBar, URLTestTop,
     URLTestQuery, URLTestBob, URLTestAmy, URLTestForceQuery, URLTestRawPath,
     URLOpaqueX, URLOpaqueY}

URLExpectationInputs == {<<"GET", u, "">> : u \in DiffURLs}

URLReceivedInputs == {HTTPRequest("GET", u, "", FALSE) : u \in DiffURLs}

DiffExpectationInputs ==
    QueryExpectationInputs \cup MethodExpectationInputs
    \cup BodyExpectationInputs \cup URLExpectationInputs

DiffReceivedInputs ==
    QueryReceivedInputs \cup MethodReceivedInputs \cup BodyReceivedInputs
    \cup URLReceivedInputs \cup {HTTPRequest("PUT", URLBar, "x", FALSE)}

\* the matchers of the tests of Request.diff and one that counts more than
\* one difference; the lists of them that Matches can have built
DiffMatchers == {"hasBody", "sometimesPass", "twoDifferences"}

MatcherLists == UNION {[1 .. n -> DiffMatchers] : n \in 1 .. MaxDiffMatchers}

\* the expectations that are given matchers
MatcherExpectationInputs == {<<"GET", URLFoo, "">>, <<"PUT", URLBar, "x">>}

\* a mock with one expectation registered by On, or by On and Matches, or
\* with two of them
InitDiff ==
    /\ \/ \E e \in DiffExpectationInputs :
              ExpectedRequests = <<newRequest(e[1], e[2], e[3])>>
       \/ \E e \in MatcherExpectationInputs, ms \in MatcherLists :
              ExpectedRequests =
                  <<[newRequest(e[1], e[2], e[3]) EXCEPT !.matchers = ms]>>
       \/ \E e1, e2 \in MatcherExpectationInputs, fn \in DiffMatchers :
              ExpectedRequests =
                  <<[newRequest(e1[1], e1[2], e1[3])
                        EXCEPT !.matchers = <<fn>>],
                    [newRequest(e2[1], e2[2], e2[3])
                        EXCEPT !.matchers = <<fn>>]>>
    /\ Requests = <<>>
    /\ mutex = 0
    /\ pc = [p \in Procs |-> "idle"]
    /\ local = [p \in Procs |-> NoLocal]
    /\ ret = NoRet
    /\ countdown = [i \in 1 .. Len(ExpectedRequests) |-> 0]
    /\ calls = 0
    /\ test = FALSE
    /\ ignorePanic = FALSE

\* r.diffQuery(received) on expectation r: total is the number of
\* differences returned
CallDiffQuery(r, received) ==
    /\ ret' = Ret("diffQuery", "", received, r, NilResponse,
                  diffQuery(ExpectedRequests[r], received))
    /\ UNCHANGED <<ExpectedRequests, Requests, mutex, pc, local, countdown, test, ignorePanic>>

\* r.diffMethod(received)
CallDiffMethod(r, received) ==
    /\ ret' = Ret("diffMethod", "", received, r, NilResponse,
                  diffMethod(ExpectedRequests[r], received))
    /\ UNCHANGED <<ExpectedRequests, Requests, mutex, pc, local, countdown, test, ignorePanic>>

\* SafeReadBody(received): the request as the call leaves it, and the
\* bytes returned (as the body of a response) or the error
CallSafeReadBody(received) ==
    /\ ret' = IF SafeReadBodyFails(received)
              THEN Ret("SafeReadBody", "error", received, NilRequest,
                       NilResponse, 0)
              ELSE Ret("SafeReadBody", "", afterSafeReadBody(received),
                       NilRequest, newResponse(0, 0, readAll(received)), 0)
    /\ UNCHANGED <<ExpectedRequests, Requests, mutex, pc, local, countdown, test, ignorePanic>>

\* r.diffBody(received); received is recorded as the call leaves it
CallDiffBody(r, received) ==
    /\ ret' = Ret("diffBody", "", afterDiffBody(ExpectedRequests[r], received),
                  r, NilResponse, diffBody(ExpectedRequests[r], received))
    /\ UNCHANGED <<ExpectedRequests, Requests, mutex, pc, local, countdown, test, ignorePanic>>

\* r.diffURL(received): the number of differences, or a panic
CallDiffURL(r, received) ==
    /\ ret' = IF diffURLPanics(ExpectedRequests[r], received)
              THEN Ret("diffURL", "panic", received, r, NilResponse, 0)
              ELSE Ret("diffURL", "", received, r, NilResponse,
                       diffURL(ExpectedRequests[r], received))
    /\ UNCHANGED <<ExpectedRequests, Requests, mutex, pc, local, countdown, test, ignorePanic>>

\* what a call of Request.diff gives back, with the matchers it has called
RetDiff(outcome, received, r, total, called) ==
    [op |-> "diff", outcome |-> outcome, received |-> received,
     expected |-> r, response |-> NilResponse, total |-> total,
     fail |-> <<>>, called |-> called]

\* r.diff(received): the number of differences, or a panic in diffURL,
\* before any matcher is called
CallDiff(r, received) ==
    /\ ret' = IF diffPanics(ExpectedRequests[r], received)
              THEN RetDiff("panic", received, r, 0, <<>>)
              ELSE RetDiff("", afterDiff(ExpectedRequests[r], received), r,
                           diff(ExpectedRequests[r], received),
                           matchersCalled(ExpectedRequests[r], received, 1))
    /\ UNCHANGED <<ExpectedRequests, Requests, mutex, pc, local, countdown, test, ignorePanic>>

\* each case of the table-driven tests makes one call
NextDiff ==
    /\ ret = NoRet
    /\ \E r \in Registered, received \in DiffReceivedInputs :
           \/ CallDiffQuery(r, received) /\ Uncounted
           \/ CallDiffMethod(r, received) /\ Uncounted
           \/ CallDiffBody(r, received) /\ Uncounted
           \/ CallDiffURL(r, received) /\ Uncounted
           \/ CallDiff(r, received) /\ Uncounted
           \/ CallSafeReadBody(received) /\ Uncounted
           \/ Requested(received) /\ Uncounted

SpecDiff == InitDiff /\ [][NextDiff]_vars

(***************************************************************************)
(* The caller of SpecResp sets response headers, replaces responses and   *)
(* makes requests in any order, at most MaxCalls calls.                    *)
(***************************************************************************)
\* the values given to one call of Response.Header (value, values...)
HeaderValueLists == { <<"bar">>, <<"baz">>, <<"bar", "baz">> }

\* the (method, URL, body) triples given to On
RespExpectationInputs == { <<"GET", URLFoo, "">>, <<"GET", URLBar, "">> }

\* the requests given to Requested
RespReceivedInputs ==
    { HTTPRequest("GET", URLFoo, "", FALSE),
      HTTPRequest("GET", URLBar, "", FALSE) }

NextResp ==
    \/ Counted /\ \E e \in RespExpectationInputs : On(e[1], e[2], e[3])
    \/ Counted /\ \E r \in Registered, c \in StatusInputs : Respond(r, c, "")
    \/ Counted /\ \E r \in Registered, key \in HeaderKeys,
                         values \in HeaderValueLists :
                      Header(r, key, values)
    \/ Counted /\ \E received \in RespReceivedInputs : Requested(received)

SpecResp == Init /\ [][NextResp]_vars

(***************************************************************************)
(* The caller of SpecFail may set a failure sink, registers expectations, *)
(* some with a URL that does not parse, and makes requests, some of which *)
(* fail.                                                                   *)
(***************************************************************************)
\* the text "\r", which url.Parse rejects
URLBad == MkURL("", "", "\r", NoQuery, "")

\* the (method, URL, body) triples given to On
FailExpectationInputs == { <<"GET", URLFoo, "">>, <<"GET", URLBad, "">> }

NextFail ==
    \/ Uncounted /\ Test
    \/ Uncounted /\ \E e \in FailExpectationInputs : On(e[1], e[2], e[3])
    \/ Uncounted /\ \E r \in Registered, c \in StatusInputs :
                        Respond(r, c, "")
    \/ Uncounted /\ \E r \in Registered : Times(r, 1)
    \/ Uncounted /\ \E received \in ReceivedInputs : Requested(received)

SpecFail == Init /\ [][NextFail]_vars

(***************************************************************************)
(* The Server around the mock (server.go): its default handler hands each *)
(* request to Mock.Requested and writes the response returned.  NewServer *)
(* builds the mock with new(Mock): it has no failure sink.                 *)
(***************************************************************************)
StatusNotFound == 404

\* nothing has been written to the client
NoStatus == 0

\* Server.IsRecoverable
IsRecoverable(ignore) == ~ignore

\* Server.NotRecoverable
NotRecoverable ==
    /\ Unlocked
    /\ ignorePanic' = TRUE
    /\ ret' = NoRet
    /\ UNCHANGED <<ExpectedRequests, Requests, mutex, pc, local, countdown,
                   test>>

\* Response.Write returns an error: the response has a body and the
\* writer fails to take it
WriteFails(response, writeErr) == response.body # "" /\ writeErr

\* the handler panics: Requested has ended in Mock.fail or in a panic of
\* its own, or it has returned a nil response, on which Write cannot be
\* called, or Write has failed and the handler has called Mock.fail.
\* Mock.fail ends in a panic, its own or that of the FailNow of a sink
\* like MockTestingT.
handlerPanics(ers, received, writeErr) ==
    \/ RequestedOutcome(ers, received) # "ok"
    \/ RequestedReturn(ers, received).response.nil
    \/ WriteFails(RequestedReturn(ers, received).response, writeErr)

\* variant: the deferred function answers 404 whatever the server is set to
handlerOutcomeAlwaysRecover(ers, received, writeErr, ignore) ==
    IF ~handlerPanics(ers, received, writeErr) THEN "written"
    ELSE "recovered"

\* how the handler ends: it has written the response, or its deferred
\* function has recovered the panic, or has raised it again
handlerOutcome(ers, received, writeErr, ignore) ==
    IF ~handlerPanics(ers, received, writeErr) THEN "written"
    ELSE IF IsRecoverable(ignore) THEN "recovered"
    ELSE "panic"

\* the status code the client is answered with: the first WriteHeader
\* call counts, that of Response.Write or that of the deferred function
handlerStatus(ers, received, writeErr, ignore) ==
    LET response == RequestedReturn(ers, received).response
    IN  IF RequestedOutcome(ers, received) = "ok" /\ ~response.nil
        THEN response.statusCode
        ELSE IF IsRecoverable(ignore) THEN StatusNotFound
        ELSE NoStatus

\* what a call of the handler leaves to look at: requested is the outcome
\* of its Requested call, status what the client is answered with
RetServe(outcome, requested, received, response, status) ==
    [op |-> "ServeHTTP", outcome |-> outcome, received |-> received,
     expected |-> NilRequest, response |-> response, total |-> 0,
     fail |-> <<>>, requested |-> requested, status |-> status]

\* the handler of makeHandler serving one request
ServeHTTP(received, writeErr) ==
    /\ Unlocked
    /\ RequestedOutcome(ExpectedRequests, received) = "ok"
           => Len(Requests) < MaxRequests
    /\ ExpectedRequests' = RequestedExpected(ExpectedRequests, received)
    /\ Requests' = RequestedLog(ExpectedRequests, Requests, received)
    /\ mutex' = IF RequestedOutcome(ExpectedRequests, received) = "panic"
                THEN Caller ELSE mutex
    /\ ret' = RetServe(handlerOutcome(ExpectedRequests, received, writeErr,
                                      ignorePanic),
                       RequestedOutcome(ExpectedRequests, received),
                       received,
                       RequestedReturn(ExpectedRequests, received).response,
                       handlerStatus(ExpectedRequests, received, writeErr,
                                     ignorePanic))
    /\ UNCHANGED <<pc, local, countdown, test, ignorePanic>>

\* the bodies given to Respond
ServeBodies == {"", "x"}

NextServe ==
    \/ Counted /\ \E e \in ExpectationInputs : On(e[1], e[2], e[3])
    \/ Counted /\ \E r \in Registered, c \in StatusInputs,
                         b \in ServeBodies : Respond(r, c, b)
    \/ Counted /\ \E r \in Registered : Times(r, 1)
    \/ Counted /\ \E r \in Registered, fn \in MatcherInputs : Matches(r, fn)
    \/ Counted /\ NotRecoverable
    \/ Counted /\ \E received \in ReceivedInputs, writeErr \in BOOLEAN :
                      ServeHTTP(received, writeErr)

SpecServe == Init /\ [][NextServe]_vars


(***************************************************************************)
(* Requested step by step, for goroutines that call it concurrently.      *)
(* pc[p] is the position of goroutine p:                                   *)
(*   "idle"   not called yet          "read"   holds the mutex, line 144   *)
(*   "find"   line 150                "update" lines 187-192               *)
(*   "append" lines 194-201           "fail"   about to call Mock.fail     *)
(*   "sink"   inside Mock.fail, holding the mutex                          *)
(*   "return" line 203, the mutex released                                 *)
(*   "returned", "aborted"  the call is over                               *)
(***************************************************************************)
\* variant: Lock does not wait for the mutex
TryLockNoWait(p) == TRUE

\* sync.Mutex.Lock returns once the mutex is free
TryLock(p) == mutex = 0

\* m.mutex.Lock() at the top of Requested
ReqLock(p, received) ==
    /\ pc[p] = "idle"
    /\ TryLock(p)
    /\ mutex' = p
    /\ pc' = [pc EXCEPT ![p] = "read"]
    /\ local' = [local EXCEPT ![p].received = received]
    /\ UNCHANGED <<ExpectedRequests, Requests, ret, countdown, test, ignorePanic>>

\* variant: a body that cannot be read is reported with the mutex still held
ReqReadBodyKeepLock(p) ==
    /\ pc[p] = "read"
    /\ IF SafeReadBodyFails(local[p].received)
       THEN /\ pc' = [pc EXCEPT ![p] = "fail"]
            /\ local' = [local EXCEPT ![p].failure = "readBody"]
            /\ UNCHANGED mutex
       ELSE /\ pc' = [pc EXCEPT ![p] = "find"]
            /\ UNCHANGED <<mutex, local>>
    /\ UNCHANGED <<ExpectedRequests, Requests, ret, countdown, test, ignorePanic>>

\* SafeReadBody; on error the mutex is released and Mock.fail is called
ReqReadBody(p) ==
    /\ pc[p] = "read"
    /\ IF SafeReadBodyFails(local[p].received)
       THEN /\ mutex' = 0
            /\ pc' = [pc EXCEPT ![p] = "fail"]
            /\ local' = [local EXCEPT ![p].failure = "readBody"]
       ELSE /\ pc' = [pc EXCEPT ![p] = "find"]
            /\ UNCHANGED <<mutex, local>>
    /\ UNCHANGED <<ExpectedRequests, Requests, ret, countdown, test, ignorePanic>>

\* variant: an expectation that has no response yet is not selected
ReqFindNeedsResponse(p) ==
    /\ pc[p] = "find"
    /\ LET fe == findExpectedRequest(ExpectedRequests, local[p].received)
       IN  IF findExpectedRequestPanics(ExpectedRequests, local[p].received)
           THEN /\ pc' = [pc EXCEPT ![p] = "panicked"]
                /\ UNCHANGED <<mutex, local>>
           ELSE IF fe.found < 0
                   \/ ExpectedRequests[fe.expected].response.nil
           THEN /\ mutex' = 0
                /\ pc' = [pc EXCEPT ![p] = "fail"]
                /\ local' =
                       [local EXCEPT
                          ![p].failure =
                              IF fe.expected # NilRequest THEN "exhausted"
                              ELSE IF findClosestRequest(ExpectedRequests,
                                          local[p].received) # NilRequest
                                   THEN "unexpected"
                                   ELSE "completelyUnexpected",
                          ![p].expected = fe.expected,
                          ![p].total =
                              IF fe.expected # NilRequest
                              THEN ExpectedRequests[fe.expected].totalRequests
                              ELSE 0]
           ELSE /\ pc' = [pc EXCEPT ![p] = "update"]
                /\ local' = [local EXCEPT ![p].expected = fe.expected]
                /\ UNCHANGED mutex
    /\ UNCHANGED <<ExpectedRequests, Requests, ret, countdown, test, ignorePanic>>

\* findExpectedRequest and, when nothing usable is found, the choice of the
\* failure; the mutex is released before Mock.fail is called.  Requested
\* unlocks by hand: when a comparison panics during the scan the call ends
\* with the mutex still held.
ReqFind(p) ==
    /\ pc[p] = "find"
    /\ LET fe == findExpectedRequest(ExpectedRequests, local[p].received)
       IN  IF findExpectedRequestPanics(ExpectedRequests, local[p].received)
           THEN /\ pc' = [pc EXCEPT ![p] = "panicked"]
                /\ UNCHANGED <<mutex, local>>
           ELSE IF fe.found < 0
           THEN /\ mutex' = 0
                /\ pc' = [pc EXCEPT ![p] = "fail"]
                /\ local' =
                       [local EXCEPT
                          ![p].failure =
                              IF fe.expected # NilRequest THEN "exhausted"
                              ELSE IF findClosestRequest(ExpectedRequests,
                                          local[p].received) # NilRequest
                                   THEN "unexpected"
                                   ELSE "completelyUnexpected",
                          ![p].expected = fe.expected,
                          ![p].total =
                              IF fe.expected # NilRequest
                              THEN ExpectedRequests[fe.expected].totalRequests
                              ELSE 0]
           ELSE /\ pc' = [pc EXCEPT ![p] = "update"]
                /\ local' = [local EXCEPT ![p].expected = fe.expected]
                /\ UNCHANGED mutex
    /\ UNCHANGED <<ExpectedRequests, Requests, ret, countdown, test, ignorePanic>>

\* variant: the mutex is released between the update and the log entry
ReqUpdateReleases(p) ==
    /\ pc[p] = "update"
    /\ ExpectedRequests' =
           [ExpectedRequests EXCEPT ![local[p].expected] =
                Consume(ExpectedRequests[local[p].expected])]
    /\ pc' = [pc EXCEPT ![p] = "append"]
    /\ mutex' = 0
    /\ UNCHANGED <<Requests, local, ret, countdown, test, ignorePanic>>

\* the repeatability and totalRequests of the expectation found
ReqUpdate(p) ==
    /\ pc[p] = "update"
    /\ ExpectedRequests' =
           [ExpectedRequests EXCEPT ![local[p].expected] =
                Consume(ExpectedRequests[local[p].expected])]
    /\ pc' = [pc EXCEPT ![p] = "append"]
    /\ UNCHANGED <<Requests, mutex, local, ret, countdown, test, ignorePanic>>

\* the log entry and the release of the mutex
ReqAppend(p) ==
    /\ pc[p] = "append"
    /\ Requests' =
           Append(Requests,
                  LogEntry(local[p].received,
                           ExpectedRequests[local[p].expected].response))
    /\ mutex' = 0
    /\ pc' = [pc EXCEPT ![p] = "return"]
    /\ UNCHANGED <<ExpectedRequests, local, ret, countdown, test, ignorePanic>>

\* return expected.response: the field is read after the mutex has been
\* released, so the value returned is the one the expectation holds at
\* that moment, which a Respond call since the release has replaced
ReqReturn(p) ==
    /\ pc[p] = "return"
    /\ local' = [local EXCEPT
                    ![p].response =
                        ExpectedRequests[local[p].expected].response]
    /\ pc' = [pc EXCEPT ![p] = "returned"]
    /\ UNCHANGED <<ExpectedRequests, Requests, mutex, ret, countdown, test,
                   ignorePanic>>

\* Mock.fail takes the mutex
FailLock(p) ==
    /\ pc[p] = "fail"
    /\ TryLock(p)
    /\ mutex' = p
    /\ pc' = [pc EXCEPT ![p] = "sink"]
    /\ UNCHANGED <<ExpectedRequests, Requests, local, ret, countdown, test, ignorePanic>>

\* Mock.fail panics or calls Errorf and FailNow; the deferred Unlock runs
\* and the call is aborted
FailAbort(p) ==
    /\ pc[p] = "sink"
    /\ mutex' = 0
    /\ pc' = [pc EXCEPT ![p] = "aborted"]
    /\ UNCHANGED <<ExpectedRequests, Requests, local, ret, countdown, test, ignorePanic>>

\* no goroutine has called Requested yet
NoneStarted == \A p \in Procs : pc[p] = "idle"

(***************************************************************************)
(* The caller of SpecConc arranges one expectation, On(...).Respond(...)  *)
(* .Times(...), and then starts goroutines that each call Requested once. *)
(***************************************************************************)
NextConc ==
    \/ /\ NoneStarted
       /\ ExpectedRequests = <<>>
       /\ Uncounted
       /\ \E e \in ExpectationInputs : On(e[1], e[2], e[3])
    \/ /\ NoneStarted
       /\ Uncounted
       /\ \E c \in StatusInputs : Respond(1, c, "")
    \/ /\ NoneStarted
       /\ Uncounted
       /\ \E i \in TimesInputs : Times(1, i)
    \/ Uncounted
       /\ \E p \in Procs, received \in ReceivedInputs : ReqLock(p, received)
    \/ Uncounted /\ \E p \in Procs : ReqReadBody(p)
    \/ Uncounted /\ \E p \in Procs : ReqFind(p)
    \/ Uncounted /\ \E p \in Procs : ReqUpdate(p)
    \/ Uncounted /\ \E p \in Procs : ReqAppend(p)
    \/ Uncounted /\ \E p \in Procs : ReqReturn(p)
    \/ Uncounted /\ \E p \in Procs : FailLock(p)
    \/ Uncounted /\ \E p \in Procs : FailAbort(p)

SpecConc == Init /\ [][NextConc]_vars

(***************************************************************************)
(* The caller of SpecRace registers and configures expectations and       *)
(* asserts, at most MaxCalls calls, while two goroutines each call         *)
(* Requested once: the calls of the caller fall between the steps of the   *)
(* goroutines wherever the mutex lets them.                                *)
(***************************************************************************)
\* the goroutines that call Requested
RaceProcs == 1 .. 2

\* the (method, URL, body) triples given to On
RaceExpectationInputs == { <<"GET", URLFoo, "">>, <<"GET", URLTestBob, "">> }

\* the requests given to Requested
RaceReceivedInputs ==
    { HTTPRequest("GET", URLFoo, "", FALSE),
      HTTPRequest("PUT", URLFoo, "", FALSE),
      HTTPRequest("GET", URLTestBob, "", FALSE),
      HTTPRequest("GET", URLFoo, "", TRUE) }

NextRace ==
    \/ Counted /\ \E e \in RaceExpectationInputs : On(e[1], e[2], e[3])
    \/ Counted /\ \E r \in Registered, c \in StatusInputs : Respond(r, c, "")
    \/ Counted /\ \E r \in Registered : Times(r, 1)
    \/ Counted /\ AssertExpectations
    \/ Uncounted /\ \E p \in RaceProcs, received \in RaceReceivedInputs :
                        ReqLock(p, received)
    \/ Uncounted /\ \E p \in RaceProcs : ReqReadBody(p)
    \/ Uncounted /\ \E p \in RaceProcs : ReqFind(p)
    \/ Uncounted /\ \E p \in RaceProcs : ReqUpdate(p)
    \/ Uncounted /\ \E p \in RaceProcs : ReqAppend(p)
    \/ Uncounted /\ \E p \in RaceProcs : ReqReturn(p)
    \/ Uncounted /\ \E p \in RaceProcs : FailLock(p)
    \/ Uncounted /\ \E p \in RaceProcs : FailAbort(p)

SpecRace == Init /\ [][NextRace]_vars

(***************************************************************************)
(* isBetterMatchThan called on pairs of candidates, as the table of       *)
(* TestMatchCandidate_isBetterMatchThan does, over a registry whose        *)
(* expectations are unlimited, counting down or exhausted.                 *)
(***************************************************************************)
\* the repeatability values and difference counts of the test's table
CandidateRepeatabilities == {-1, 0, 1}
CandidateDiffCounts == {2, 3}

\* an expectation as On, Times(1) and one use leave it
candidateRequest(repeatability) ==
    [newRequest("GET", URLFoo, "")
        EXCEPT !.repeatability = repeatability,
               !.totalRequests = IF repeatability = -1 THEN 1 ELSE 0]

\* matchCandidate{} and the candidates that reference an expectation
Candidates(ers) ==
    {[request |-> NilRequest, diffCount |-> 0]}
    \cup {[request |-> i, diffCount |-> d] :
              i \in 1 .. Len(ers), d \in CandidateDiffCounts}

InitOrder ==
    /\ \E n \in 1 .. MaxExpected :
           \E reps \in [1 .. n -> CandidateRepeatabilities] :
               /\ ExpectedRequests =
                      [i \in 1 .. n |-> candidateRequest(reps[i])]
               /\ countdown =
                      [i \in 1 .. n |-> IF reps[i] = 0 THEN 0 ELSE 1]
    /\ Requests = <<>>
    /\ mutex = 0
    /\ pc = [p \in Procs |-> "idle"]
    /\ local = [p \in Procs |-> NoLocal]
    /\ ret = NoRet
    /\ calls = 0
    /\ test = FALSE
    /\ ignorePanic = FALSE

\* what a call of isBetterMatchThan gives back, with the call before it
RetBetter(mc, other, better, prev) ==
    [op |-> "isBetterMatchThan", outcome |-> "", received |-> NoReceived,
     expected |-> NilRequest, response |-> NilResponse, total |-> 0,
     fail |-> <<>>, mc |-> mc, other |-> other, better |-> better,
     prev |-> prev]

\* mc.isBetterMatchThan(other)
CallIsBetterMatchThan(mc, other) ==
    /\ ret' = RetBetter(mc, other,
                        isBetterMatchThan(ExpectedRequests, mc, other),
                        IF ret.op = "isBetterMatchThan"
                        THEN <<[mc |-> ret.mc, other |-> ret.other,
                                better |-> ret.better]>>
                        ELSE <<>>)
    /\ UNCHANGED <<ExpectedRequests, Requests, mutex, pc, local, countdown,
                   test, ignorePanic>>

NextOrder ==
    \E mc, other \in Candidates(ExpectedRequests) :
        CallIsBetterMatchThan(mc, other) /\ Uncounted

SpecOrder == InitOrder /\ [][NextOrder]_vars

(***************************************************************************)
(* Vocabulary of the properties.                                           *)
(***************************************************************************)
\* the expectations with zero differences against received
ZeroDiff(received) ==
    {i \in 1 .. Len(ExpectedRequests) : diff(ExpectedRequests[i], received) = 0}

\* an expectation whose uses are spent
Exhausted(e) == e.repeatability < 0

\* the zero-difference expectations that can still be used
Usable(received) ==
    {i \in ZeroDiff(received) : ~Exhausted(ExpectedRequests[i])}

Min(S) == CHOOSE x \in S : \A y \in S : x <= y
Max(S) == CHOOSE x \in S : \A y \in S : x >= y

\* the received requests whose body can be read
Readable == {r \in ReceivedInputs : ~r.BodyErr}

\* this step is a call Requested(received) that returned a response
RequestedOK(received) ==
    /\ ret'.op = "Requested" /\ ret'.outcome = "ok"
    /\ ret'.received = received
    /\ Requested(received)

\* this step is a call Requested(received) that failed
RequestedFailed(received) ==
    /\ ret'.op = "Requested" /\ ret'.outcome # "ok"
    /\ ret'.received = received
    /\ Requested(received)

(***************************************************************************)
(* C1.  Repeatability countdown: an expectation given Times(N), N > 0,    *)
(* that is the only registered expectation matching a request serves the  *)
(* first N such calls of Requested, each returning its response, and the  *)
(* next call fails as an exhausted match whose message reports            *)
(* totalRequests = N.                                                      *)
(***************************************************************************)
C1_Countdown ==
    [][\A r \in Readable : \A i \in 1 .. Len(ExpectedRequests) :
          (/\ ret'.op = "Requested" /\ ret'.received = r
           /\ countdown[i] > 0
           /\ ZeroDiff(r) = {i}
           /\ Requested(r))
          => IF ExpectedRequests[i].totalRequests < countdown[i]
             THEN /\ ret'.outcome = "ok"
                  /\ ret'.expected = i
                  /\ ret'.response = ExpectedRequests[i].response
                  /\ ExpectedRequests'[i].totalRequests =
                         ExpectedRequests[i].totalRequests + 1
             ELSE /\ ret'.outcome = "exhausted"
                  /\ ret'.expected = i
                  /\ ret'.total = countdown[i]
                  /\ ExpectedRequests'[i].totalRequests = countdown[i]]_vars

\* the call after the last of Twice() has failed, another expectation
\* being registered
C1_Witness ==
    /\ ret.op = "Requested" /\ ret.outcome = "exhausted"
    /\ ret.expected # NilRequest
    /\ countdown[ret.expected] = 2
    /\ ret.total = 2
    /\ ZeroDiff(ret.received) = {ret.expected}
    /\ Len(ExpectedRequests) = 2
    /\ ~ExpectedRequests[ret.expected].response.nil

(***************************************************************************)
(* C2.  findExpectedRequest returns the first-registered expectation that *)
(* has zero differences and is not exhausted; if zero-difference          *)
(* expectations exist but all are exhausted it returns index -1 with the  *)
(* last-registered of them; if none has zero differences it returns       *)
(* (-1, nil).                                                              *)
(***************************************************************************)
C2_FindExpected ==
    \A r \in Readable :
        LET fe == findExpectedRequest(ExpectedRequests, r)
        IN  /\ Usable(r) # {}
                => /\ fe.found = Min(Usable(r)) - 1
                   /\ fe.expected = Min(Usable(r))
            /\ (Usable(r) = {} /\ ZeroDiff(r) # {})
                => /\ fe.found = -1
                   /\ fe.expected = Max(ZeroDiff(r))
            /\ ZeroDiff(r) = {}
                => /\ fe.found = -1
                   /\ fe.expected = NilRequest

\* a call found two zero-difference expectations, both exhausted, and
\* reported the second
C2_Witness ==
    /\ ret.op = "Requested" /\ ret.outcome = "exhausted"
    /\ ZeroDiff(ret.received) = {1, 2}
    /\ Usable(ret.received) = {}
    /\ ret.expected = 2

(***************************************************************************)
(* C3.  A successful Requested call changes exactly the expectation it    *)
(* selected: repeatability 0 stays 0, 1 becomes -1, N > 1 becomes N - 1,  *)
(* totalRequests grows by 1; every other expectation is unchanged.        *)
(***************************************************************************)
C3_ConsumeOne ==
    [][\A r \in Readable :
          RequestedOK(r)
          => LET i == ret'.expected
                 before == ExpectedRequests[i].repeatability
                 after == ExpectedRequests'[i].repeatability
             IN  /\ i \in 1 .. Len(ExpectedRequests)
                 /\ Len(ExpectedRequests') = Len(ExpectedRequests)
                 /\ \/ before = 0 /\ after = 0
                    \/ before = 1 /\ after = -1
                    \/ before > 1 /\ after = before - 1
                 /\ ExpectedRequests'[i].totalRequests =
                        ExpectedRequests[i].totalRequests + 1
                 /\ \A j \in 1 .. Len(ExpectedRequests) :
                        j # i => ExpectedRequests'[j] = ExpectedRequests[j]
      ]_vars

\* a call has used the last use of the second expectation, the first one
\* never having been used
C3_Witness ==
    /\ ret.op = "Requested" /\ ret.outcome = "ok"
    /\ ret.expected = 2
    /\ Len(ExpectedRequests) = 2
    /\ ExpectedRequests[2].repeatability = -1
    /\ ExpectedRequests[2].totalRequests = 2
    /\ ExpectedRequests[1].totalRequests = 0
    /\ ExpectedRequests[1].repeatability = 1

(***************************************************************************)
(* C4.  Identical requests are served in registration order: a            *)
(* successful call goes to the earliest-registered zero-difference        *)
(* expectation that is not exhausted, every earlier zero-difference       *)
(* expectation being exhausted, and an unlimited expectation that has     *)
(* been reached is also the one the next such request is matched to.      *)
(***************************************************************************)
C4_RegistrationOrder ==
    [][\A r \in Readable :
          RequestedOK(r)
          => LET i == ret'.expected
             IN  /\ i \in ZeroDiff(r)
                 /\ ~Exhausted(ExpectedRequests[i])
                 /\ \A j \in ZeroDiff(r) :
                        j < i => Exhausted(ExpectedRequests[j])
                 /\ ExpectedRequests[i].repeatability = 0
                        => findExpectedRequest(ExpectedRequests', r).expected
                               = i
      ]_vars

\* the second expectation has served a request that the first, now
\* exhausted, served before
C4_Witness ==
    /\ ret.op = "Requested" /\ ret.outcome = "ok"
    /\ ret.expected = 2
    /\ 1 \in ZeroDiff(ret.received)
    /\ ExpectedRequests[1].repeatability = -1
    /\ ExpectedRequests[1].totalRequests = 1
    /\ ExpectedRequests[2].repeatability = 0
    /\ ExpectedRequests[2].totalRequests = 1

(***************************************************************************)
(* C5.  A Requested call that fails (body read error, exhausted match,    *)
(* no match) leaves the expectations and the received-request log as      *)
(* they were.                                                              *)
(***************************************************************************)
C5_FailedCallFrame ==
    [][\A r \in ReceivedInputs :
          RequestedFailed(r)
          => /\ ExpectedRequests' = ExpectedRequests
             /\ Requests' = Requests
      ]_vars

\* a call has failed in the middle of a countdown, the log being non-empty
C5_Witness ==
    /\ ret.op = "Requested"
    /\ ret.outcome = "unexpected"
    /\ Len(Requests) = 1
    /\ \E i \in 1 .. Len(ExpectedRequests) :
           /\ ExpectedRequests[i].repeatability = 1
           /\ ExpectedRequests[i].totalRequests = 1

(***************************************************************************)
(* C6.  For a readable request without a usable exact match, Requested    *)
(* reports exactly one failure: the exhausted match (with its             *)
(* totalRequests) iff some expectation has zero differences; the          *)
(* unexpected request with its closest match iff none has zero            *)
(* differences and at least one expectation is registered; the            *)
(* completely unexpected request iff none is registered.                  *)
(***************************************************************************)
C6_FailureKind ==
    [][\A r \in Readable :
          (/\ ret'.op = "Requested" /\ ret'.received = r
           /\ Usable(r) = {}
           /\ Requested(r))
          => /\ ret'.outcome \in
                    {"exhausted", "unexpected", "completelyUnexpected"}
             /\ ret'.outcome = "exhausted" <=> ZeroDiff(r) # {}
             /\ ret'.outcome = "exhausted"
                    => /\ ret'.expected \in ZeroDiff(r)
                       /\ ret'.total =
                              ExpectedRequests[ret'.expected].totalRequests
             /\ ret'.outcome = "unexpected"
                    <=> (ZeroDiff(r) = {} /\ ExpectedRequests # <<>>)
             /\ ret'.outcome = "unexpected"
                    => ret'.expected \in 1 .. Len(ExpectedRequests)
             /\ ret'.outcome = "completelyUnexpected"
                    <=> ExpectedRequests = <<>>
      ]_vars

\* an exhausted match has been reported while another expectation, which
\* does not match the request, can still be used
C6_Witness ==
    /\ ret.op = "Requested" /\ ret.outcome = "exhausted"
    /\ ret.total = 1
    /\ \E j \in 1 .. Len(ExpectedRequests) :
           /\ j \notin ZeroDiff(ret.received)
           /\ ~Exhausted(ExpectedRequests[j])

(***************************************************************************)
(* Satisfaction of an expectation, in the words of the properties.        *)
(***************************************************************************)
\* some entry of the received-request log matches the method, URL and body
\* of the expectation e
LogMatches(e) ==
    \E k \in 1 .. Len(Requests) :
        diff(Requests[k], HTTPRequest(e.method, e.url, e.body, FALSE)) = 0

NeverConsumed(e) == e.totalRequests = 0

OwesUses(e) == e.repeatability > 0

(***************************************************************************)
(* C7.  AssertExpectations returns true iff every registered expectation  *)
(* e satisfies NOT((e was never consumed AND no log entry matches e) OR   *)
(* e.repeatability > 0).                                                   *)
(***************************************************************************)
C7_AssertExpectations ==
    ret.op = "AssertExpectations"
    => (ret.outcome = "true"
        <=> \A i \in 1 .. Len(ExpectedRequests) :
                LET e == ExpectedRequests[i]
                IN  ~ \/ (NeverConsumed(e) /\ ~LogMatches(e))
                      \/ OwesUses(e))

\* true is returned although one of two expectations was consumed without
\* a log entry that matches it
C7_Witness ==
    /\ ret.op = "AssertExpectations" /\ ret.outcome = "true"
    /\ Len(ExpectedRequests) = 2
    /\ \E i \in 1 .. 2 :
           /\ ~NeverConsumed(ExpectedRequests[i])
           /\ ~LogMatches(ExpectedRequests[i])

(***************************************************************************)
(* C8.  With a single expectation given Times(N), N >= 1,                 *)
(* AssertExpectations returns false after 0 .. N-1 consumptions and true  *)
(* after the Nth; with a single unlimited expectation it returns false    *)
(* before the first consumption and true after any later one.             *)
(***************************************************************************)
C8_SingleExpectation ==
    (ret.op = "AssertExpectations" /\ Len(ExpectedRequests) = 1)
    => LET e == ExpectedRequests[1]
       IN  /\ countdown[1] > 0
               => (ret.outcome = "true" <=> e.totalRequests = countdown[1])
           /\ e.repeatability = 0
               => (ret.outcome = "true" <=> e.totalRequests >= 1)

\* the single expectation was given Twice() and has been consumed twice
C8_Witness ==
    /\ ret.op = "AssertExpectations" /\ ret.outcome = "true"
    /\ Len(ExpectedRequests) = 1
    /\ countdown[1] = 2
    /\ ExpectedRequests[1].totalRequests = 2

(***************************************************************************)
(* C9.  As claimed: in AssertExpectations an expectation counts as        *)
(* satisfied whenever it was consumed at least once, or it owes no uses   *)
(* (it is unlimited or exhausted).                                         *)
(***************************************************************************)
C9_SatisfiedWhenever ==
    ret.op = "AssertExpectations"
    => \A i \in 1 .. Len(ExpectedRequests) :
           LET e == ExpectedRequests[i]
           IN  (~NeverConsumed(e) \/ ~OwesUses(e))
               => checkExpectation(Requests, e)

(***************************************************************************)
(* C9, amended.  In AssertExpectations an expectation counts as satisfied *)
(* exactly when it owes no uses and it was consumed at least once or a    *)
(* log entry matches it: the expectations AssertExpectations counts as    *)
(* failed are those that owe uses or were never consumed and match no     *)
(* log entry.                                                              *)
(***************************************************************************)
C9_SatisfiedExactly ==
    ret.op = "AssertExpectations"
    => failedExpectations(ExpectedRequests, Requests, 1)
       = Cardinality({i \in 1 .. Len(ExpectedRequests) :
             LET e == ExpectedRequests[i]
             IN  ~ (/\ ~OwesUses(e)
                    /\ (~NeverConsumed(e) \/ LogMatches(e)))})

\* false is returned for an expectation that was consumed once and still
\* owes a use
C9_Witness ==
    /\ ret.op = "AssertExpectations" /\ ret.outcome = "false"
    /\ \E i \in 1 .. Len(ExpectedRequests) :
           /\ ExpectedRequests[i].totalRequests = 1
           /\ ExpectedRequests[i].repeatability = 1

(***************************************************************************)
(* C10.  Requested runs its scan, state transition and log append as one  *)
(* critical section: when K goroutines call Requested concurrently with   *)
(* requests that all match the single expectation, given Times(N), that   *)
(* expectation's totalRequests never exceeds N, and once all K calls are  *)
(* over exactly min(K, N) of them have returned and the log has exactly   *)
(* min(K, N) entries.                                                      *)
(***************************************************************************)
\* the goroutines that have called Requested
Started == {p \in Procs : pc[p] # "idle"}

\* the goroutines whose call has returned a response
Returned == {p \in Procs : pc[p] = "returned"}

\* every call made so far is over
Quiescent == \A p \in Procs : pc[p] \in {"idle", "returned", "aborted"}

MinOf(a, b) == IF a <= b THEN a ELSE b

\* one expectation with a countdown, and every call made matches it
CountdownRace ==
    /\ Len(ExpectedRequests) = 1
    /\ countdown[1] > 0
    /\ \A p \in Started :
           /\ ~local[p].received.BodyErr
           /\ diff(ExpectedRequests[1], local[p].received) = 0

C10_CriticalSection ==
    CountdownRace
    => /\ ExpectedRequests[1].totalRequests <= countdown[1]
       /\ Len(Requests) <= countdown[1]
       /\ Quiescent
              => /\ Cardinality(Returned)
                        = MinOf(Cardinality(Started), countdown[1])
                 /\ Len(Requests)
                        = MinOf(Cardinality(Started), countdown[1])
                 /\ ExpectedRequests[1].totalRequests
                        = MinOf(Cardinality(Started), countdown[1])

\* three goroutines have raced for an expectation given Twice(): two calls
\* returned and one was aborted as an exhausted match
C10_Witness ==
    /\ CountdownRace
    /\ Quiescent
    /\ countdown[1] = 2
    /\ Cardinality(Started) = 3
    /\ Cardinality(Returned) = 2
    /\ \E p \in Procs : pc[p] = "aborted" /\ local[p].failure = "exhausted"

(***************************************************************************)
(* C11.  On every failure path of Requested (body read error, exhausted   *)
(* match, unmatched request) the call no longer holds the registry mutex  *)
(* when it invokes Mock.fail, and it does not hold it once it has         *)
(* aborted; the mutex is free whenever no call is inside Requested or     *)
(* inside Mock.fail, so a failed call never blocks a later one.           *)
(***************************************************************************)
\* the positions at which a goroutine does not run code of the mock, or is
\* about to enter Mock.fail
Outside == {"idle", "fail", "return", "returned", "aborted"}

C11_ReleasedOnFailure ==
    /\ \A p \in Procs : pc[p] \in {"fail", "aborted"} => mutex # p
    /\ (\A p \in Procs : pc[p] \in Outside) => mutex = 0
    /\ mutex # 0 => pc[mutex] \notin Outside

\* one call was aborted for its unreadable body, one as an unmatched
\* request, and a third call is running inside Requested with the mutex
C11_Witness ==
    \E p, q, r \in Procs :
        /\ pc[p] = "aborted" /\ local[p].failure = "readBody"
        /\ pc[q] = "aborted" /\ local[q].failure = "unexpected"
        /\ pc[r] = "find" /\ mutex = r

(***************************************************************************)
(* C12.  As claimed: Exhausted is terminal.  Once the repeatability of an *)
(* expectation is -1, no later call of a public operation (Requested, On, *)
(* Times/Once/Twice, Respond, Matches, the assertions) changes it, and no *)
(* Requested call selects that expectation as the exact match.            *)
(***************************************************************************)
\* this step is a Requested call that selected the expectation i
Selects(i) ==
    ret'.op = "Requested" /\ ret'.outcome = "ok" /\ ret'.expected = i

C12_ExhaustedTerminal ==
    [][\A i \in Registered :
          ExpectedRequests[i].repeatability = -1
          => /\ ExpectedRequests'[i].repeatability = -1
             /\ ~Selects(i)]_vars

(***************************************************************************)
(* C12, amended.  Exhausted is terminal under every operation but         *)
(* Times/Once/Twice: while the repeatability of an expectation is -1 no   *)
(* Requested call selects it, and a call that changes the expectation's   *)
(* repeatability or totalRequests is a call of Times on that expectation, *)
(* which sets the repeatability to the count it is given.                  *)
(***************************************************************************)
C12_TerminalButForTimes ==
    [][\A i \in Registered :
          ExpectedRequests[i].repeatability = -1
          => /\ ~Selects(i)
             /\ ExpectedRequests'[i].totalRequests
                    = ExpectedRequests[i].totalRequests
             /\ ExpectedRequests'[i].repeatability # -1
                    => \E k \in TimesAnyInputs :
                           /\ Times(i, k)
                           /\ ExpectedRequests'[i].repeatability = k]_vars

\* an expectation was consumed by its only use, then given a response, and
\* the next matching request was refused as an exhausted match
C12_Witness ==
    /\ ret.op = "Requested" /\ ret.outcome = "exhausted"
    /\ ExpectedRequests[ret.expected].repeatability = -1
    /\ ExpectedRequests[ret.expected].totalRequests = 1
    /\ ~ExpectedRequests[ret.expected].response.nil
    /\ Len(Requests) = 1
    /\ Requests[1].response.nil

C14_Perpetuity ==
    [][\A i \in Registered :
          ExpectedRequests[i].repeatability = 0
          => /\ ExpectedRequests'[i].repeatability # 0
                    => \E k \in TimesInputs : Times(i, k)
             /\ \A r \in Readable :
                    (/\ ret'.op = "Requested" /\ ret'.received = r
                     /\ diff(ExpectedRequests[i], r) = 0
                     /\ Requested(r))
                    => /\ ret'.outcome = "ok"
                       /\ ExpectedRequests'[i].repeatability = 0
                       /\ (\A j \in Usable(r) : j >= i)
                              => /\ ret'.expected = i
                                 /\ ret'.response
                                        = ExpectedRequests[i].response
                                 /\ ExpectedRequests'[i].totalRequests
                                        = ExpectedRequests[i].totalRequests
                                          + 1]_vars

\* an expectation never given a count has served as many requests as the
\* log can hold, and the last call returned its response
C14_Witness ==
    /\ ret.op = "Requested" /\ ret.outcome = "ok"
    /\ countdown[ret.expected] = 0
    /\ ExpectedRequests[ret.expected].repeatability = 0
    /\ ExpectedRequests[ret.expected].totalRequests = MaxRequests
    /\ ret.total = MaxRequests
    /\ ~ret.response.nil
    /\ ret.response = ExpectedRequests[ret.expected].response

(***************************************************************************)
(* C15.  After any sequence of operations AssertNumberOfRequests(method,  *)
(* path, n) returns true iff n is the number of entries of the            *)
(* received-request log (one per successful Requested call, none for a    *)
(* failed one) whose method equals method exactly and whose URL equals    *)
(* path once user information, query and fragment are removed from both.  *)
(***************************************************************************)
\* a URL without its user information, query and fragment
Stripped(u) ==
    [u EXCEPT !.User = "", !.Query = NoQuery, !.Fragment = "",
              !.RawFragment = ""]

\* the log entries that count for (method, path)
Counting(method, path) ==
    {k \in 1 .. Len(Requests) :
        /\ Requests[k].method = method
        /\ Stripped(Requests[k].url) = Stripped(path)}

\* the uses counted by the expectations, all together
RECURSIVE TotalUses(_)
TotalUses(ers) ==
    IF ers = <<>> THEN 0 ELSE Head(ers).totalRequests + TotalUses(Tail(ers))

C15_NumberOfRequests ==
    /\ Len(Requests) = TotalUses(ExpectedRequests)
    /\ ret.op = "AssertNumberOfRequests"
           => (ret.outcome = "true"
               <=> ret.total
                   = Cardinality(Counting(ret.received.Method,
                                          ret.received.URL)))

\* two requests were logged, one carrying a query and one carrying a query
\* and a fragment; both count for a path that carries user information, a
\* query and a fragment
C15_Witness ==
    /\ ret.op = "AssertNumberOfRequests" /\ ret.outcome = "true"
    /\ ret.total = 2
    /\ ret.received.URL = URLTestFull
    /\ Len(Requests) = 2
    /\ \E k \in 1 .. 2 : Requests[k].url = URLTestQueryTop
    /\ \E k \in 1 .. 2 : Requests[k].url = URLTestQuery

(***************************************************************************)
(* C16.  As claimed: AssertRequested(method, path, body) treats its       *)
(* arguments as the expectation and each logged request as the received   *)
(* side; it returns true iff some logged request has zero differences     *)
(* against an expectation built from (method, path, body), so that an     *)
(* argument path that declares no query matches a logged request whatever *)
(* query that request carried.                                             *)
(***************************************************************************)
\* the logged request k as a received request
LoggedAsReceived(k) ==
    HTTPRequest(Requests[k].method, Requests[k].url, Requests[k].body, FALSE)

C16_ArgumentsAsExpectation ==
    ret.op = "AssertRequested"
    => (ret.outcome = "true"
        <=> \E k \in 1 .. Len(Requests) :
                diff(newRequest(ret.received.Method, ret.received.URL,
                                ret.received.Body),
                     LoggedAsReceived(k)) = 0)

(***************************************************************************)
(* C16, amended.  AssertRequested(method, path, body) treats each logged  *)
(* request as the expectation and its arguments as the received side: it  *)
(* returns true iff some logged request has zero differences against a    *)
(* received request built from (method, path, body).  The query-subset    *)
(* rule is applied to the query keys of the logged request: an argument   *)
(* path without a query never matches a logged request that carried one,  *)
(* and a logged request without a query matches an argument path whatever *)
(* query the path carries.                                                 *)
(***************************************************************************)
\* the logged request k and the arguments agree on method, body and on the
\* URL but for the query
AgreeButQuery(k, a) ==
    /\ Requests[k].method = a.Method
    /\ Requests[k].body = a.Body
    /\ [Requests[k].url EXCEPT !.Query = NoQuery]
           = [a.URL EXCEPT !.Query = NoQuery]

C16_LoggedAsExpectation ==
    ret.op = "AssertRequested"
    => /\ ret.outcome = "true"
              <=> \E k \in 1 .. Len(Requests) :
                      diff(Requests[k], ret.received) = 0
       /\ (\A k \in 1 .. Len(Requests) :
               DOMAIN Requests[k].url.Query # {}
               /\ DOMAIN ret.received.URL.Query = {})
              => ret.outcome = "false"
       /\ (\E k \in 1 .. Len(Requests) :
               DOMAIN Requests[k].url.Query = {}
               /\ AgreeButQuery(k, ret.received))
              => ret.outcome = "true"

\* the only logged request carried a query and AssertRequested was given
\* the same method, body and path without the query: false is returned
C16_Witness ==
    /\ ret.op = "AssertRequested" /\ ret.outcome = "false"
    /\ Len(Requests) = 1
    /\ Requests[1].url = URLTestQuery
    /\ ret.received.URL = URLTest
    /\ AgreeButQuery(1, ret.received)

(***************************************************************************)
(* C17.  For every state of the received-request log and every (method,   *)
(* path, body) whose path parses, AssertNotRequested returns the negation *)
(* of AssertRequested: exactly one of the two returns true.               *)
(***************************************************************************)
C17_Complement ==
    /\ ret.op = "AssertNotRequested"
           => (ret.outcome = "true")
              # AssertRequestedResult(Requests, ret.received.Method,
                                      ret.received.URL, ret.received.Body)
    /\ ret.op = "AssertRequested"
           => (ret.outcome = "true")
              # AssertNotRequestedResult(Requests, ret.received.Method,
                                         ret.received.URL, ret.received.Body)
    /\ \A a \in LogAssertInputs :
           AssertRequestedResult(Requests, a[1], a[2], a[3])
           # AssertNotRequestedResult(Requests, a[1], a[2], a[3])

\* AssertNotRequested has returned true with two requests in the log, one
\* of them differing from the arguments in the method only
C17_Witness ==
    /\ ret.op = "AssertNotRequested" /\ ret.outcome = "true"
    /\ Len(Requests) = 2
    /\ \E k \in 1 .. 2 :
           /\ Requests[k].url = ret.received.URL
           /\ Requests[k].method # ret.received.Method

(***************************************************************************)
(* C18.  With at least one expectation registered, findClosestRequest     *)
(* returns the first-registered expectation among those with the smallest *)
(* difference count, except that when at that smallest count some         *)
(* expectations still owe uses (repeatability > 0) and others do not, it  *)
(* returns the first-registered of those still owing uses.                *)
(***************************************************************************)
\* the difference count of every expectation against received
Diffs(received) ==
    [i \in Registered |-> diff(ExpectedRequests[i], received)]

\* the expectations with the smallest of the difference counts d
Closest(d) == {i \in DOMAIN d : \A j \in DOMAIN d : d[i] <= d[j]}

\* those of them that still owe uses
ClosestOwing(d) ==
    {i \in Closest(d) : ExpectedRequests[i].repeatability > 0}

\* the expectation the property names as the closest to received
ClosestExpected(received) ==
    LET d == Diffs(received)
        owing == ClosestOwing(d)
    IN  IF owing # {} THEN Min(owing) ELSE Min(Closest(d))

C18_ClosestRequest ==
    ExpectedRequests # <<>>
    => /\ \A r \in ReceivedInputs :
              findClosestRequest(ExpectedRequests, r) = ClosestExpected(r)
       /\ (ret.op = "Requested" /\ ret.outcome = "unexpected")
              => ret.expected = ClosestExpected(ret.received)

\* an unmatched request is as close to the first expectation as to the
\* second, and the second, which still owes uses, was reported
C18_Witness ==
    /\ ret.op = "Requested" /\ ret.outcome = "unexpected"
    /\ Len(ExpectedRequests) = 2
    /\ Closest(Diffs(ret.received)) = {1, 2}
    /\ ExpectedRequests[1].repeatability <= 0
    /\ ExpectedRequests[2].repeatability > 0
    /\ ret.expected = 2

(***************************************************************************)
(* Vocabulary of the query properties.                                     *)
(***************************************************************************)
\* how many times value v occurs in the value list s
Count(v, s) == Cardinality({i \in DOMAIN s : s[i] = v})

\* the two value lists hold the same values, each as many times in one as
\* in the other, in whatever order
SameValues(x, y) == \A v \in QueryVals : Count(v, x) = Count(v, y)

\* the set of values of a value list
ValueSet(s) == {s[i] : i \in DOMAIN s}

\* the query the expectation of the last diffQuery call declares, and the
\* query that call received
Declared == ExpectedRequests[ret.expected].url.Query
Received == ret.received.URL.Query

(***************************************************************************)
(* C19  Query subset rule: when the expectation's URL declares no query   *)
(* parameters, diffQuery returns 0 differences whatever the received      *)
(* query holds; otherwise it returns 0 if and only if every declared key  *)
(* is present in the received query with the same values (the same values *)
(* as many times each, in whatever order), and 1 if not; a received key   *)
(* that the expectation does not declare never causes a difference: the   *)
(* result is the one the received query cut down to the declared keys     *)
(* gets.                                                                   *)
(***************************************************************************)
C19_QuerySubset ==
    ret.op = "diffQuery"
    => /\ ret.total \in {0, 1}
       /\ DOMAIN Declared = {} => ret.total = 0
       /\ DOMAIN Declared # {}
              => (ret.total = 0
                    <=> \A k \in DOMAIN Declared :
                            /\ k \in DOMAIN Received
                            /\ SameValues(Declared[k], Received[k]))
       /\ LET cut == [k \in DOMAIN Received \cap DOMAIN Declared
                          |-> Received[k]]
          IN  ret.total =
                  diffQuery(ExpectedRequests[ret.expected],
                            HTTPRequest("GET", URLFooQuery(cut), "", FALSE))

\* an expectation that declares key a with two values met a request that
\* holds them in the other order and an undeclared key b besides: no
\* difference
C19_Witness ==
    /\ ret.op = "diffQuery"
    /\ DOMAIN Declared = {"a"}
    /\ DOMAIN Received = {"a", "b"}
    /\ Declared["a"] = <<"1", "2">>
    /\ Received["a"] = <<"2", "1">>
    /\ ret.total = 0

Compared == ExpectedRequests[ret.expected]

(***************************************************************************)
(* C21  diffMethod returns 0 differences if and only if the expectation's *)
(* method is the AnyMethod wildcard and the received method is not empty, *)
(* or the two methods are the same non-empty string (letter case          *)
(* included); otherwise it returns exactly 1, so an expectation with an   *)
(* empty method never matches, not even a request with an empty method.   *)
(***************************************************************************)
C21_DiffMethod ==
    ret.op = "diffMethod"
    => /\ ret.total \in {0, 1}
       /\ ret.total = 0
            <=> \/ Compared.method = AnyMethod /\ ret.received.Method # ""
                \/ /\ Compared.method = ret.received.Method
                   /\ Compared.method # ""
       /\ Compared.method = "" => ret.total = 1

\* an expectation without a method met a request without a method: one
\* difference
C21_Witness ==
    /\ ret.op = "diffMethod"
    /\ Compared.method = ""
    /\ ret.received.Method = ""
    /\ ret.total = 1

\* what the body property says of an expectation body e and a received
\* body a: the wildcard, or both empty, or both non-empty and equal
BodiesAgree(e, a) ==
    \/ e = AnyBody
    \/ e = "" /\ a = ""
    \/ e # "" /\ a # "" /\ e = a

(***************************************************************************)
(* C22  diffBody returns 0 differences if and only if the expectation's   *)
(* body is the AnyBody wildcard (whatever was received, nothing at all    *)
(* included), or both bodies are empty, or both are non-empty and equal   *)
(* byte for byte; in every other case it returns exactly 1.               *)
(***************************************************************************)
C22_DiffBody ==
    ret.op = "diffBody"
    => /\ ret.total \in {0, 1}
       /\ Compared.body = AnyBody => ret.total = 0
       /\ ~ret.received.BodyErr
            => (ret.total = 0
                  <=> BodiesAgree(Compared.body, ret.received.Body))

(***************************************************************************)
(* C22 (amended)  For a received request whose body can be read, diffBody *)
(* returns 0 differences if and only if the expectation's body is the     *)
(* AnyBody wildcard, or both bodies are empty, or both are non-empty and  *)
(* equal byte for byte, and exactly 1 in every other case; for a received *)
(* request whose body cannot be read it returns exactly 1 whatever the    *)
(* expectation's body, the wildcard included.                              *)
(***************************************************************************)
C22_DiffBodyReadable ==
    ret.op = "diffBody"
    => /\ ret.total \in {0, 1}
       /\ ~ret.received.BodyErr
            => (ret.total = 0
                  <=> BodiesAgree(Compared.body, ret.received.Body))
       /\ ret.received.BodyErr => ret.total = 1

\* the wildcard met a request without a body: no difference
C22_Witness ==
    /\ ret.op = "diffBody"
    /\ Compared.body = AnyBody
    /\ ~ret.received.BodyErr
    /\ ret.received.Body = ""
    /\ ret.total = 0

\* the last direct comparator call was diffURL and it returned
DiffURLReturned == ret.op = "diffURL" /\ ret.outcome # "panic"

(***************************************************************************)
(* C23  diffURL fails on account of an empty URL only when exactly one of *)
(* the two rendered URL strings is empty: it then returns 1 difference;   *)
(* when the expectation's URL and the received URL are both empty they go *)
(* on to the comparison of the fields and diffURL returns 0 differences.  *)
(***************************************************************************)
C23_BothEmptyPass ==
    DiffURLReturned
    => /\ URLStringIsEmpty(Compared.url) # URLStringIsEmpty(ret.received.URL)
            => ret.total = 1
       /\ URLStringIsEmpty(Compared.url) /\ URLStringIsEmpty(ret.received.URL)
            => ret.total = 0

(***************************************************************************)
(* C23 (amended)  diffURL fails on account of an empty URL whenever at    *)
(* least one of the two rendered URL strings is empty: it returns 1       *)
(* difference when exactly one is empty, and when the expectation's URL   *)
(* and the received URL are both empty it returns 1 difference as well.   *)
(***************************************************************************)
C23_EitherEmptyFails ==
    ret.op = "diffURL"
    => (URLStringIsEmpty(Compared.url) \/ URLStringIsEmpty(ret.received.URL)
        => ret.outcome # "panic" /\ ret.total = 1)

\* an expectation with an empty URL met a request with an empty URL: one
\* difference
C23_Witness ==
    /\ ret.op = "diffURL"
    /\ Compared.url = URLEmpty
    /\ ret.received.URL = URLEmpty
    /\ ret.total = 1

\* the two URLs agree on scheme, host, path and fragment and on the values
\* of the query keys the expectation declares
AgreeOnComparedFields(e, a) ==
    /\ e.Scheme = a.Scheme /\ e.Host = a.Host
    /\ e.Path = a.Path /\ e.Fragment = a.Fragment
    /\ \A k \in DOMAIN e.Query :
           k \in DOMAIN a.Query /\ SameValues(e.Query[k], a.Query[k])

(***************************************************************************)
(* C24  diffURL ignores user information, opaque, raw path and force      *)
(* query: for two URLs that render non-empty and agree on scheme, host,   *)
(* path and fragment and on the values of the expectation's declared      *)
(* query keys, diffURL returns 0 differences even when they differ in any *)
(* of the ignored fields.                                                  *)
(***************************************************************************)
C24_IgnoredFields ==
    (/\ ret.op = "diffURL"
     /\ ~URLStringIsEmpty(Compared.url)
     /\ ~URLStringIsEmpty(ret.received.URL)
     /\ AgreeOnComparedFields(Compared.url, ret.received.URL))
    => ret.outcome # "panic" /\ ret.total = 0

\* the last direct comparator call was diff and it returned
DiffReturned == ret.op = "diff" /\ ret.outcome # "panic"

\* the counts the matchers of the list ms return for received, added up
RECURSIVE MatcherCounts(_, _)
MatcherCounts(ms, received) ==
    IF ms = <<>> THEN 0
    ELSE RunMatcher(ms[Len(ms)], received)
         + MatcherCounts(SubSeq(ms, 1, Len(ms) - 1), received)

(***************************************************************************)
(* C25  Request.diff returns the sum of the method, URL and body counts   *)
(* (each 0 or 1, the URL counting once however many of its parts differ)  *)
(* plus the count returned by every extra matcher, and it runs all the    *)
(* matchers, in the order they were added, even when an earlier           *)
(* comparison has already failed.                                          *)
(***************************************************************************)
C25_DiffSum ==
    DiffReturned
    => LET dm == diffMethod(Compared, ret.received)
           du == diffURL(Compared, ret.received)
           db == diffBody(Compared, ret.received)
       IN  /\ dm \in {0, 1} /\ du \in {0, 1} /\ db \in {0, 1}
           /\ ret.total
                = dm + du + db + MatcherCounts(Compared.matchers, ret.received)
           /\ ret.called = Compared.matchers

\* method, URL and body all differ, the URL in more than its path, and both
\* matchers were still run, in the order they were added: 1 + 1 + 1 from
\* the comparators, 2 and 1 from the matchers
C25_Witness ==
    /\ DiffReturned
    /\ Compared.matchers = <<"twoDifferences", "hasBody">>
    /\ ret.called = <<"twoDifferences", "hasBody">>
    /\ diffMethod(Compared, ret.received) = 1
    /\ Compared.url = URLBar
    /\ ret.received.URL = URLTestTop
    /\ diffBody(Compared, ret.received) = 1
    /\ ret.total = 6

\* the last call read the body of the request it was given
ReadsBody == ret.op \in {"SafeReadBody", "diffBody", "diff", "Requested"}

\* the request of the last call as it was sent
AsSent ==
    HTTPRequest(ret.received.Method, ret.received.URL, ret.received.Sent,
                FALSE)

ResponseChanged ==
    /\ Len(ExpectedRequests') = Len(ExpectedRequests)
    /\ \E i \in 1 .. Len(ExpectedRequests) :
           ExpectedRequests'[i].response # ExpectedRequests[i].response

\* C27: the log entry of a successful Requested call carries its own copy
\* of the matched response: a later Response.Header call on the
\* expectation's response, or a Respond call that replaces it, leaves the
\* response recorded in every existing log entry unchanged
C27_LogResponseFrozen ==
    [][ResponseChanged
           => /\ Len(Requests') = Len(Requests)
              /\ \A k \in 1 .. Len(Requests) :
                     Requests'[k].response = Requests[k].response]_vars

\* C28: Response.Header called for a key that already has values
\* overwrites them: after the call the response's values for the key are
\* exactly the values of that call
C28_HeaderOverwrites ==
    [][\A r \in Registered, key \in HeaderKeys,
          values \in HeaderValueLists :
            Header(r, key, values)
                => ExpectedRequests'[r].response.header[key] = values]_vars

(***************************************************************************)
(* Fatal failures.                                                         *)
(***************************************************************************)
\* the last call was On or Requested and it ended in a fatal failure
FailedFatally ==
    /\ ret.op \in {"On", "Requested"}
    /\ ret.outcome \in FatalOutcomes

\* C29: every fatal failure of On or Requested (a URL that does not parse,
\* a body that cannot be read, an exhausted expectation, an unexpected
\* request) goes through Mock.fail exactly once: with a sink set by Test
\* the sink's Errorf is called once and then its FailNow once, without a
\* sink the call panics with the formatted message, which is not empty;
\* either way the call returns neither a response nor a handle.  A call
\* that does not fail leaves the sink alone.
C29_FailOnce ==
    /\ FailedFatally
           => /\ test => /\ Len(ret.fail) = 2
                         /\ ret.fail[1].call = "Errorf"
                         /\ ret.fail[1].message # ""
                         /\ ret.fail[2].call = "FailNow"
              /\ ~test => /\ Len(ret.fail) = 1
                          /\ ret.fail[1].call = "panic"
                          /\ ret.fail[1].message # ""
              /\ ret.response.nil
              /\ ret.op = "On" => ret.expected = NilRequest
    /\ (ret.op \in {"On", "Requested"} /\ ret.outcome = "ok")
           => /\ ret.fail = <<>>
              /\ ret.op = "On" => ret.expected # NilRequest

\* a request has met an exhausted expectation of a mock that has a sink
C29_Witness ==
    /\ test
    /\ ret.op = "Requested"
    /\ ret.outcome = "exhausted"
    /\ ret.fail = fail(TRUE, failureMessage("exhausted"))
    /\ ExpectedRequests[ret.expected].totalRequests = 1
    /\ Len(Requests) = 1

\* C30: On called with a URL text that does not parse fails fatally
\* through Mock.fail and registers nothing: the expected-request list is
\* after the call what it was before
C30_BadURLRegistersNothing ==
    [][\A e \in FailExpectationInputs :
          (urlParseFails(e[2]) /\ On(e[1], e[2], e[3]))
          => /\ ExpectedRequests' = ExpectedRequests
             /\ ret'.outcome = "badURL"
             /\ ret'.fail = fail(test, failureMessage("badURL"))
             /\ ret'.fail # <<>>
      ]_vars

\* On has failed on a URL that does not parse, with a sink set and one
\* expectation registered before
C30_Witness ==
    /\ test
    /\ ret.op = "On"
    /\ ret.outcome = "badURL"
    /\ Len(ret.fail) = 2
    /\ Len(ExpectedRequests) = 1

(***************************************************************************)
(* The received-request log.                                               *)
(***************************************************************************)
\* this step is a successful call of Requested with a request of SpecResp
LoggedResp(received) ==
    /\ Requested(received)
    /\ ret'.outcome = "ok"

\* C31: the received-request log is append-only: a successful Requested
\* call appends exactly one entry, which holds the received method, URL
\* and body; no step removes, reorders or changes an entry the log already
\* has, and no other step makes the log longer
C31_AppendOnly ==
    [][/\ Len(Requests') >= Len(Requests)
       /\ \A k \in 1 .. Len(Requests) : Requests'[k] = Requests[k]
       /\ IF \E received \in RespReceivedInputs : LoggedResp(received)
          THEN /\ Len(Requests') = Len(Requests) + 1
               /\ \E received \in RespReceivedInputs :
                      /\ LoggedResp(received)
                      /\ Requests'[Len(Requests')].method = received.Method
                      /\ Requests'[Len(Requests')].url = received.URL
                      /\ Requests'[Len(Requests')].body = received.Sent
          ELSE Len(Requests') = Len(Requests)
      ]_vars

\* the same, but for the response an entry carries: what C31 says of the
\* method, URL and body of the entries, of their order and their number
C31_AppendOnlyButResponse ==
    [][/\ Len(Requests') >= Len(Requests)
       /\ \A k \in 1 .. Len(Requests) :
              [Requests'[k] EXCEPT !.response = NilResponse]
              = [Requests[k] EXCEPT !.response = NilResponse]
       /\ IF \E received \in RespReceivedInputs : LoggedResp(received)
          THEN Len(Requests') = Len(Requests) + 1
          ELSE Len(Requests') = Len(Requests)
      ]_vars

(***************************************************************************)
(* The default handler of the Server.                                      *)
(***************************************************************************)
\* the request is unmatched: no expectation has zero differences with it,
\* not even an exhausted one
Unmatched(received) ==
    RequestedOutcome(ExpectedRequests, received)
        \in {"unexpected", "completelyUnexpected"}

\* this step is the handler serving an unmatched request
ServedUnmatched(received, writeErr) ==
    /\ ret'.op = "ServeHTTP"
    /\ Unmatched(received)
    /\ ServeHTTP(received, writeErr)

\* what C32 says of the answer: without NotRecoverable an unmatched
\* request is answered with 404, it is not logged, and the handler returns
\* with the mutex free, so that later requests are served; the panic
\* leaves the handler only after NotRecoverable
Answered404(received, writeErr) ==
    /\ Requests' = Requests
    /\ ExpectedRequests' = ExpectedRequests
    /\ mutex' = 0
    /\ IF ignorePanic
       THEN ret'.outcome = "panic" /\ ret'.status = NoStatus
       ELSE ret'.outcome = "recovered" /\ ret'.status = StatusNotFound

C33_CountdownShape ==
    \A i \in Registered :
        countdown[i] > 0
        => LET e == ExpectedRequests[i]
               N == countdown[i]
           IN  /\ \/ /\ e.repeatability \in 1 .. N
                     /\ e.repeatability + e.totalRequests = N
                  \/ /\ e.repeatability = -1
                     /\ e.totalRequests = N
               /\ e.repeatability # 0

\* a countdown of MaxTimes uses has run out
C33_Witness ==
    \E i \in Registered :
        /\ countdown[i] = MaxTimes
        /\ ExpectedRequests[i].repeatability = -1
        /\ ExpectedRequests[i].totalRequests = MaxTimes

\* the sum of totalRequests over the expectations ers
RECURSIVE SumTotalRequests(_)
SumTotalRequests(ers) ==
    IF ers = <<>> THEN 0
    ELSE Head(ers).totalRequests + SumTotalRequests(Tail(ers))

\* C34: in every state that the operations, called in any order and
\* concurrently, leave behind them, the totalRequests of the registered
\* expectations add up to the length of the received-request log.  A
\* Requested call that has counted the use and not yet appended the entry
\* holds the mutex: no operation sees the state in between.
C34_UsesEqualLog ==
    Unlocked => SumTotalRequests(ExpectedRequests) = Len(Requests)

\* two goroutines have consumed two different expectations
C34_Witness ==
    /\ Unlocked
    /\ Len(ExpectedRequests) = 2
    /\ ExpectedRequests[1].totalRequests = 1
    /\ ExpectedRequests[2].totalRequests = 1
    /\ Len(Requests) = 2
    /\ \A p \in RaceProcs : pc[p] = "returned"

(***************************************************************************)
(* Satisfaction over time.                                                 *)
(***************************************************************************)
\* this step registers an expectation or gives one a new repeatability
Reconfigures ==
    \/ Len(ExpectedRequests') # Len(ExpectedRequests)
    \/ \E r \in Registered, i \in TimesAnyInputs : Times(r, i)

\* C35: satisfaction is monotone.  When AssertExpectations would return
\* true, it still would after any step that is neither On nor Times, in
\* particular after any call of Requested, successful or failed; so with
\* no further On or Times call it returns true for ever after
C35_MonotoneSatisfaction ==
    [][(/\ AssertExpectationsResult(ExpectedRequests, Requests)
        /\ ~Reconfigures)
       => AssertExpectationsResult(ExpectedRequests', Requests')]_vars

\* a call of Requested has failed on an exhausted expectation, which
\* changes nothing, in a state where the expectations were satisfied, and
\* they still are
C35_Witness ==
    /\ ret.op = "Requested"
    /\ ret.outcome = "exhausted"
    /\ Len(ExpectedRequests) = 2
    /\ ExpectedRequests[ret.expected].repeatability = -1
    /\ Len(Requests) >= 1
    /\ AssertExpectationsResult(ExpectedRequests, Requests)

(***************************************************************************)
(* The mutex over whole calls.                                             *)
(***************************************************************************)
\* goroutine p is not between the Lock and the Unlock of a call: it has
\* not called yet, or is about to call Mock.fail, or its call has ended,
\* by a return, by the abort of Mock.fail or by a panic
NotInCall(p) ==
    pc[p] \in {"idle", "fail", "return", "returned", "aborted", "panicked"}

\* C36: no call takes the mutex while it holds it, and every call
\* releases it on every path, normal return, abort by the sink and panic:
\* a goroutine that is not inside a critical section does not hold the
\* mutex, so that a goroutine waiting for the mutex always gets it in the
\* end and no interleaving of concurrent calls deadlocks
C36_ReleasedOnEveryPath ==
    \A p \in RaceProcs : NotInCall(p) => mutex # p

(***************************************************************************)
(* Registration and configuration are separate calls.                     *)
(***************************************************************************)
\* a usable exact match for received is registered, configured or not
HasUsable(received) ==
    \E i \in Registered :
        /\ diff(ExpectedRequests[i], received) = 0
        /\ ExpectedRequests[i].repeatability > -1

\* C37: an expectation is visible to Requested as soon as On has returned,
\* unlimited and with no response, and stays so until Times or Respond is
\* called: a Requested call that runs in between selects it like any
\* other, counts the use, logs the request with no response and returns
\* the response the expectation holds when the call returns, nil when
\* none has been attached
C37_VisibleUnconfigured ==
    [][/\ (ret'.op = "On" /\ ret'.outcome = "ok" /\ ret' # ret)
           => LET e == ExpectedRequests'[Len(ExpectedRequests')]
              IN  /\ Len(ExpectedRequests') = Len(ExpectedRequests) + 1
                  /\ e.repeatability = 0
                  /\ e.totalRequests = 0
                  /\ e.response.nil
                  /\ mutex' = 0
       /\ \A p \in RaceProcs :
              /\ ( /\ pc[p] = "find"
                   /\ pc'[p] # "find"
                   /\ HasUsable(local[p].received)
                   /\ ~findExpectedRequestPanics(ExpectedRequests,
                                                 local[p].received) )
                  => /\ pc'[p] = "update"
                     /\ local'[p].expected \in Registered
                     /\ diff(ExpectedRequests[local'[p].expected],
                             local[p].received) = 0
              /\ (pc[p] = "update" /\ pc'[p] = "append")
                  => ExpectedRequests'[local[p].expected].totalRequests
                         = ExpectedRequests[local[p].expected].totalRequests
                               + 1
              /\ (pc[p] = "append" /\ pc'[p] = "return")
                  => /\ Len(Requests') = Len(Requests) + 1
                     /\ Requests'[Len(Requests')].response.nil
                            = ExpectedRequests[local[p].expected].response.nil
              /\ (pc[p] = "return" /\ pc'[p] = "returned")
                  => local'[p].response
                         = ExpectedRequests[local[p].expected].response
      ]_vars

\* a goroutine's Requested has consumed the first expectation between its
\* On and its configuration: the call returned nil and the request is
\* logged with no response and counted, and the Times(1) and Respond
\* calls that followed find the expectation already used once
C37_Witness ==
    \E p \in RaceProcs :
        /\ pc[p] = "returned"
        /\ local[p].expected = 1
        /\ local[p].response.nil
        /\ Len(Requests) = 1
        /\ Requests[1].response.nil
        /\ ExpectedRequests[1].totalRequests = 1
        /\ ExpectedRequests[1].repeatability = 1
        /\ ~ExpectedRequests[1].response.nil

(***************************************************************************)
(* Exact matches and extra matchers.                                       *)
(***************************************************************************)
\* the counts the matchers of expectation r report for received
MatcherReports(r, received) ==
    {RunMatcher(r.matchers[i], received) : i \in 1 .. Len(r.matchers)}

\* method, URL and body of r all compare equal to received
ComparatorsPass(r, received) ==
    /\ diffMethod(r, received) = 0
    /\ diffURL(r, received) = 0
    /\ diffBody(r, received) = 0

\* C38: when no matcher returns a negative count, Request.diff returns 0
\* if and only if the method, URL and body comparisons and every matcher
\* of the expectation each report 0; the expectation Requested selects
\* has therefore no matcher that reports a difference
C38_ExactIffAllZero ==
    /\ ( /\ DiffReturned
         /\ \A d \in MatcherReports(Compared, ret.received) : d >= 0 )
       => ( ret.total = 0
            <=> /\ ComparatorsPass(Compared, ret.received)
                /\ MatcherReports(Compared, ret.received) \subseteq {0} )
    /\ (ret.op = "Requested" /\ ret.outcome = "ok")
       => /\ ComparatorsPass(Compared, ret.received)
          /\ MatcherReports(Compared, ret.received) \subseteq {0}

\* Requested was given a request that equals the one expectation in
\* method, URL and body, whose first matcher passes and whose second
\* reports a difference: the expectation was not selected
C38_Witness ==
    /\ ret.op = "Requested"
    /\ ret.outcome = "unexpected"
    /\ Len(ExpectedRequests) = 1
    /\ ret.expected = 1
    /\ ComparatorsPass(ExpectedRequests[1], ret.received)
    /\ ExpectedRequests[1].matchers = <<"sometimesPass", "hasBody">>
    /\ RunMatcher("sometimesPass", ret.received) = 0
    /\ RunMatcher("hasBody", ret.received) = 1
    /\ Requests = <<>>

(***************************************************************************)
(* The ordering of match candidates.                                       *)
(***************************************************************************)
\* the last call was isBetterMatchThan
Compares == ret.op = "isBetterMatchThan"

\* the last two calls were isBetterMatchThan
ComparedTwice == Compares /\ ret.prev # <<>>

\* the candidate references an expectation
HasRequest(mc) == mc.request # NilRequest

\* C39: isBetterMatchThan is a strict ordering of the candidates that
\* reference an expectation: no candidate is better than itself, no two
\* candidates are each better than the other, and a candidate better than
\* a second that is better than a third is better than the third; a
\* candidate with no expectation is never better than any candidate, and
\* every candidate with an expectation is better than one with none
C39_StrictOrder ==
    /\ Compares
       => /\ ~HasRequest(ret.mc) => ~ret.better
          /\ (HasRequest(ret.mc) /\ ~HasRequest(ret.other)) => ret.better
          /\ (HasRequest(ret.mc) /\ ret.other = ret.mc) => ~ret.better
    /\ ( /\ ComparedTwice
         /\ HasRequest(ret.mc) /\ HasRequest(ret.other)
         /\ ret.prev[1].better )
       => /\ (ret.prev[1].mc = ret.other /\ ret.prev[1].other = ret.mc)
                 => ~ret.better
          /\ ( /\ HasRequest(ret.prev[1].mc)
               /\ ret.prev[1].other = ret.mc
               /\ ret.better )
                 => isBetterMatchThan(ExpectedRequests, ret.prev[1].mc,
                                      ret.other)

\* a candidate with uses left was found better than one with the same
\* difference count and no uses left, which was then found better than a
\* candidate with a higher difference count
C39_Witness ==
    /\ ComparedTwice
    /\ ret.prev[1].better
    /\ ret.better
    /\ ret.prev[1].other = ret.mc
    /\ HasRequest(ret.prev[1].mc) /\ HasRequest(ret.mc)
    /\ HasRequest(ret.other)
    /\ ret.prev[1].mc.diffCount = ret.mc.diffCount
    /\ ExpectedRequests[ret.prev[1].mc.request].repeatability > 0
    /\ ExpectedRequests[ret.mc.request].repeatability <= 0
    /\ ret.mc.diffCount < ret.other.diffCount

====
